---------------------------- MODULE Spec2Model ----------------------------
(***************************************************************************)
(* Model of the SDL painter of SuperTux (src/video/sdl/sdl_painter.cpp):   *)
(* the blend resolver, the texture wraparound renderer, the shape          *)
(* rasterizers and the painter facade with its clip rectangle; and of two  *)
(* of its collaborators, the fade of TextObject and                        *)
(* ObjectSettings::reorder.                                                *)
(*                                                                         *)
(* Numbers.  C++ int values are TLA+ integers (the bounds keep them far    *)
(* from overflow).  C++ float values of requests are fixed-point numbers   *)
(* with denominator Den: the integer v stands for the float v / Den.  All  *)
(* model inputs are chosen so that binary floating point represents every  *)
(* intermediate value exactly, hence exact rational arithmetic followed by *)
(* truncation is what the compiled code computes on them.                  *)
(***************************************************************************)
EXTENDS Integers, Sequences, FiniteSets, TLC

VARIABLES
  pc,          \* "idle" | "pending" | "done": position of the caller of the operation under test
               \* ("fading" | "cancelled" for the caller of a TextObject)
  request,     \* the request handed to the operation that ran last (or is pending)
  calls,       \* backend draw calls issued by the operation that ran last
  trace,       \* execution trace of render_texture in the operation that ran last
  log,         \* diagnostics written to log_warning by the operation that ran last
  err,         \* "none", or the C++ exception the operation that ran last ended with
  m_cliprect,  \* SDLPainter::m_cliprect (boost::optional<SDL_Rect>)
  sdl_clip,    \* clip rectangle in effect in the SDL renderer
  draw_color,  \* SDL renderer draw colour (r, g, b, a), 8 bit each
  draw_blend,  \* SDL renderer draw blend mode
  tex_mod,     \* colour / alpha / blend modulation stored on the SDL texture
  color_slot,  \* the Color that GetPixelRequest::color_ptr points to
  m_fading,    \* TextObject::m_fading (float)
  m_fadetime,  \* TextObject::m_fadetime (float)
  m_visible,   \* TextObject::m_visible
  m_options    \* ObjectSettings::m_options

vars == <<pc, request, calls, trace, log, err, m_cliprect, sdl_clip,
          draw_color, draw_blend, tex_mod, color_slot,
          m_fading, m_fadetime, m_visible, m_options>>

text_vars == <<m_fading, m_fadetime, m_visible>>

painter_vars == <<m_cliprect, sdl_clip, draw_color, draw_blend, tex_mod, color_slot>>

-----------------------------------------------------------------------------
(* Bounds of the model.                                                    *)

\* largest texture width and height
MaxTex == 2
\* largest width and height of a source rectangle
MaxSpan == 5
\* largest width and height of a destination rectangle
MaxDst == 4
\* cap on the recursion depth of render_texture explored by the model
MaxDepth == 12

-----------------------------------------------------------------------------
(* C++ arithmetic.                                                         *)

Abs(a) == IF a < 0 THEN -a ELSE a

Min(a, b) == IF a < b THEN a ELSE b

Max(a, b) == IF a > b THEN a ELSE b

\* C++ integer division a / b: the quotient truncated toward zero (b # 0)
CDiv(a, b) ==
  IF (a >= 0) = (b > 0) \/ a = 0
  THEN Abs(a) \div Abs(b)
  ELSE -(Abs(a) \div Abs(b))

\* math::positive_mod: the remainder of the floored division, in [0, m) for m > 0
positive_mod(v, m) == v % m

-----------------------------------------------------------------------------
(* math/rect.hpp: integer rectangle with the four edges as fields.          *)

Rect(l, t, r, b) == [left |-> l, top |-> t, right |-> r, bottom |-> b]

\* Rect(left, top, Size)
RectSized(l, t, w, h) == Rect(l, t, l + w, t + h)

get_width(rect) == rect.right - rect.left

get_height(rect) == rect.bottom - rect.top

\* Rect::empty
RectEmpty(rect) == get_width(rect) <= 0 \/ get_height(rect) <= 0

\* Rect::contains(int x, int y)
RectContainsPoint(rect, x, y) ==
  /\ rect.left <= x /\ x < rect.right
  /\ rect.top <= y /\ y < rect.bottom

\* Rect::contains(const Rect&)
RectContains(rect, other) ==
  /\ rect.left <= other.left /\ other.right <= rect.right
  /\ rect.top <= other.top /\ other.bottom <= rect.bottom

\* Rect::to_sdl and Rect(const SDL_Rect&)
to_sdl(rect) == [x |-> rect.left, y |-> rect.top, w |-> get_width(rect), h |-> get_height(rect)]

from_sdl(s) == RectSized(s.x, s.y, s.w, s.h)

-----------------------------------------------------------------------------
(* The texture wraparound renderer.                                        *)

\* intersect with the right remainder spanning the whole height of srcrect
intersect_full_right(srcrect, imgrect) ==
  [inside |-> Rect(Max(srcrect.left, imgrect.left), Max(srcrect.top, imgrect.top),
                   Min(srcrect.right, imgrect.right), Min(srcrect.bottom, imgrect.bottom)),
   top    |-> Rect(srcrect.left, srcrect.top, srcrect.right, imgrect.top),
   left   |-> Rect(srcrect.left, Max(srcrect.top, imgrect.top),
                   imgrect.left, Min(srcrect.bottom, imgrect.bottom)),
   right  |-> Rect(imgrect.right, srcrect.top, srcrect.right, srcrect.bottom),
   bottom |-> Rect(srcrect.left, imgrect.bottom, srcrect.right, srcrect.bottom)]

\* intersect with the right remainder starting at the left edge of the image
intersect_wide_right(srcrect, imgrect) ==
  [inside |-> Rect(Max(srcrect.left, imgrect.left), Max(srcrect.top, imgrect.top),
                   Min(srcrect.right, imgrect.right), Min(srcrect.bottom, imgrect.bottom)),
   top    |-> Rect(srcrect.left, srcrect.top, srcrect.right, imgrect.top),
   left   |-> Rect(srcrect.left, Max(srcrect.top, imgrect.top),
                   imgrect.left, Min(srcrect.bottom, imgrect.bottom)),
   right  |-> Rect(imgrect.left, Max(srcrect.top, imgrect.top),
                   srcrect.right, Min(srcrect.bottom, imgrect.bottom)),
   bottom |-> Rect(srcrect.left, imgrect.bottom, srcrect.right, srcrect.bottom)]

\* the five rectangles inside, top, left, right, bottom
intersect(srcrect, imgrect) ==
  [inside |-> Rect(Max(srcrect.left, imgrect.left), Max(srcrect.top, imgrect.top),
                   Min(srcrect.right, imgrect.right), Min(srcrect.bottom, imgrect.bottom)),
   top    |-> Rect(srcrect.left, srcrect.top, srcrect.right, imgrect.top),
   left   |-> Rect(srcrect.left, Max(srcrect.top, imgrect.top),
                   imgrect.left, Min(srcrect.bottom, imgrect.bottom)),
   right  |-> Rect(imgrect.right, Max(srcrect.top, imgrect.top),
                   srcrect.right, Min(srcrect.bottom, imgrect.bottom)),
   bottom |-> Rect(srcrect.left, imgrect.bottom, srcrect.right, srcrect.bottom)]

\* relative_map that forgets to subtract the origin of srcrect
relative_map_no_origin(inside, srcrect, dstrect) ==
  Rect(dstrect.left + CDiv(inside.left * get_width(dstrect), get_width(srcrect)),
       dstrect.top + CDiv(inside.top * get_height(dstrect), get_height(srcrect)),
       dstrect.left + CDiv(inside.right * get_width(dstrect), get_width(srcrect)),
       dstrect.top + CDiv(inside.bottom * get_height(dstrect), get_height(srcrect)))

\* relative_map that scales the size of inside on its own instead of its
\* far edges
relative_map_by_size(inside, srcrect, dstrect) ==
  LET left == dstrect.left + CDiv((inside.left - srcrect.left) * get_width(dstrect), get_width(srcrect))
      top  == dstrect.top + CDiv((inside.top - srcrect.top) * get_height(dstrect), get_height(srcrect))
  IN Rect(left, top,
          left + CDiv(get_width(inside) * get_width(dstrect), get_width(srcrect)),
          top + CDiv(get_height(inside) * get_height(dstrect), get_height(srcrect)))

\* the rectangle relative_map returns (srcrect is not empty where it is called)
relative_map(inside, srcrect, dstrect) ==
  Rect(dstrect.left + CDiv((inside.left - srcrect.left) * get_width(dstrect), get_width(srcrect)),
       dstrect.top + CDiv((inside.top - srcrect.top) * get_height(dstrect), get_height(srcrect)),
       dstrect.left + CDiv((inside.right - srcrect.left) * get_width(dstrect), get_width(srcrect)),
       dstrect.top + CDiv((inside.bottom - srcrect.top) * get_height(dstrect), get_height(srcrect)))

\* assert(srcrect.contains(inside)) at the head of relative_map
relative_map_pre(inside, srcrect) == RectContains(srcrect, inside)

\* assert(dstrect.contains(result)) at the end of relative_map
relative_map_post(result, dstrect) == RectContains(dstrect, result)

(* One entry of the execution trace of render_texture.                      *)
(*   ev = "call": render_texture was entered with (src, dst); ok is the    *)
(*                value of assert(imgrect.contains(srcrect.left, top))      *)
(*   ev = "map":  relative_map(src, parent srcrect, parent dstrect) gave   *)
(*                dst; ok and ok2 are the values of its two assertions     *)
(*   ev = "blit": SDL_RenderCopy(src, dst)                                 *)
(*   ev = "cap":  the model stopped following the recursion at MaxDepth    *)
(* depth is the nesting depth of the call (1 = the call from RenderCopyEx) *)
(* and off the sum of the multiples of the texture size that positive_mod  *)
(* removed from src on the way down (bookkeeping of the model only).       *)
(* parent is the srcrect of the call that made the entry.                   *)
Ev(ev, depth, src, dst, off, ok, ok2, parent) ==
  [ev |-> ev, depth |-> depth, src |-> src, dst |-> dst, off |-> off,
   ok |-> ok, ok2 |-> ok2, parent |-> parent]

\* render_texture that returns early for an empty srcrect only
RECURSIVE render_texture_src_only(_, _, _, _, _)
render_texture_src_only(imgrect, srcrect, dstrect, off, depth) ==
  LET enter == <<Ev("call", depth, srcrect, dstrect, off,
                    RectContainsPoint(imgrect, srcrect.left, srcrect.top), TRUE, srcrect)>>
  IN
  IF RectEmpty(srcrect) THEN enter
  ELSE IF RectContains(imgrect, srcrect)
    THEN enter \o <<Ev("blit", depth, srcrect, dstrect, off, TRUE, TRUE, srcrect)>>
  ELSE IF depth >= MaxDepth
    THEN enter \o <<Ev("cap", depth, srcrect, dstrect, off, TRUE, TRUE, srcrect)>>
  ELSE
    LET parts == intersect(srcrect, imgrect)
        mapped(rect) ==
          <<Ev("map", depth, rect, relative_map(rect, srcrect, dstrect), off,
               relative_map_pre(rect, srcrect),
               relative_map_post(relative_map(rect, srcrect, dstrect), dstrect),
               srcrect)>>
        rest(rect) ==
          LET new_left == positive_mod(rect.left, get_width(imgrect))
              new_top  == positive_mod(rect.top, get_height(imgrect))
          IN mapped(rect) \o
             render_texture_src_only(imgrect,
                            RectSized(new_left, new_top, get_width(rect), get_height(rect)),
                            relative_map(rect, srcrect, dstrect),
                            <<off[1] + rect.left - new_left, off[2] + rect.top - new_top>>,
                            depth + 1)
    IN enter
       \o mapped(parts.inside)
       \o render_texture_src_only(imgrect, parts.inside,
                         relative_map(parts.inside, srcrect, dstrect), off, depth + 1)
       \o rest(parts.top) \o rest(parts.left) \o rest(parts.right) \o rest(parts.bottom)

RECURSIVE render_texture(_, _, _, _, _)
render_texture(imgrect, srcrect, dstrect, off, depth) ==
  LET enter == <<Ev("call", depth, srcrect, dstrect, off,
                    RectContainsPoint(imgrect, srcrect.left, srcrect.top), TRUE, srcrect)>>
  IN
  IF RectEmpty(srcrect) \/ RectEmpty(dstrect) THEN enter
  ELSE IF RectContains(imgrect, srcrect)
    THEN enter \o <<Ev("blit", depth, srcrect, dstrect, off, TRUE, TRUE, srcrect)>>
  ELSE IF depth >= MaxDepth
    THEN enter \o <<Ev("cap", depth, srcrect, dstrect, off, TRUE, TRUE, srcrect)>>
  ELSE
    LET parts == intersect(srcrect, imgrect)
        mapped(rect) ==
          <<Ev("map", depth, rect, relative_map(rect, srcrect, dstrect), off,
               relative_map_pre(rect, srcrect),
               relative_map_post(relative_map(rect, srcrect, dstrect), dstrect),
               srcrect)>>
        rest(rect) ==
          LET new_left == positive_mod(rect.left, get_width(imgrect))
              new_top  == positive_mod(rect.top, get_height(imgrect))
          IN mapped(rect) \o
             render_texture(imgrect,
                            RectSized(new_left, new_top, get_width(rect), get_height(rect)),
                            relative_map(rect, srcrect, dstrect),
                            <<off[1] + rect.left - new_left, off[2] + rect.top - new_top>>,
                            depth + 1)
    IN enter
       \o mapped(parts.inside)
       \o render_texture(imgrect, parts.inside,
                         relative_map(parts.inside, srcrect, dstrect), off, depth + 1)
       \o rest(parts.top) \o rest(parts.left) \o rest(parts.right) \o rest(parts.bottom)

\* the backend calls of a render_texture trace
Blits(tr) == SelectSeq(tr, LAMBDA e : e.ev = "blit")

-----------------------------------------------------------------------------
(* Fixed-point floats, colours and 8-bit conversion.                       *)

\* denominator of the fixed-point floats of request geometry and times
Den == 2

\* denominator of a colour channel: the channel value c stands for c / ColorDen
ColorDen == 128

\* static_cast<int>(float) of the fixed-point float v: truncation toward zero
ToInt(v) == CDiv(v, Den)

\* static_cast<Uint8>(f) of the float num / den with 0 <= num / den < 256
ToU8(num, den) == CDiv(num, den) % 256

\* the four bytes static_cast<Uint8>(channel * 255) of a colour
Rgba8(color) ==
  <<ToU8(color[1] * 255, ColorDen), ToU8(color[2] * 255, ColorDen),
    ToU8(color[3] * 255, ColorDen), ToU8(color[4] * 255, ColorDen)>>

\* integer square root: the largest k with k * k <= n, searched between lo
\* and hi (lo * lo <= n < hi * hi)
RECURSIVE ISqrtIn(_, _, _)
ISqrtIn(n, lo, hi) ==
  IF hi - lo <= 1 THEN lo
  ELSE LET mid == (lo + hi) \div 2
       IN IF mid * mid <= n THEN ISqrtIn(n, mid, hi) ELSE ISqrtIn(n, lo, mid)

ISqrt(n) == ISqrtIn(n, 0, Min(n, 46340) + 1)

-----------------------------------------------------------------------------
(* The blend resolver.                                                     *)

Factors ==
  {"GL_ZERO", "GL_ONE", "GL_SRC_COLOR", "GL_ONE_MINUS_SRC_COLOR", "GL_SRC_ALPHA",
   "GL_ONE_MINUS_SRC_ALPHA", "GL_DST_ALPHA", "GL_ONE_MINUS_DST_ALPHA", "GL_DST_COLOR",
   "GL_ONE_MINUS_DST_COLOR", "GL_SRC_ALPHA_SATURATE"}

Blend(sfactor, dfactor) == [sfactor |-> sfactor, dfactor |-> dfactor]

UnknownBlend(blend) ==
  [msg |-> "unknown blend mode combinations", sfactor |-> blend.sfactor, dfactor |-> blend.dfactor]

\* blend2sdl that tests only the source factor
blend2sdl_sfactor_only(blend) ==
  IF blend.sfactor = "GL_ONE"
    THEN [mode |-> "NONE", warn |-> <<>>]
  ELSE IF blend.sfactor = "GL_SRC_ALPHA" /\ blend.dfactor = "GL_ONE_MINUS_SRC_ALPHA"
    THEN [mode |-> "BLEND", warn |-> <<>>]
  ELSE IF blend.sfactor = "GL_SRC_ALPHA"
    THEN [mode |-> "ADD", warn |-> <<>>]
  ELSE IF blend.sfactor = "GL_DST_COLOR"
    THEN [mode |-> "MOD", warn |-> <<>>]
  ELSE [mode |-> "BLEND", warn |-> <<UnknownBlend(blend)>>]

\* blend2sdl that falls back to BLEND without writing the diagnostic
blend2sdl_no_warning(blend) ==
  IF blend.sfactor = "GL_ONE" /\ blend.dfactor = "GL_ZERO"
    THEN [mode |-> "NONE", warn |-> <<>>]
  ELSE IF blend.sfactor = "GL_SRC_ALPHA" /\ blend.dfactor = "GL_ONE_MINUS_SRC_ALPHA"
    THEN [mode |-> "BLEND", warn |-> <<>>]
  ELSE IF blend.sfactor = "GL_SRC_ALPHA" /\ blend.dfactor = "GL_ONE"
    THEN [mode |-> "ADD", warn |-> <<>>]
  ELSE IF blend.sfactor = "GL_DST_COLOR" /\ blend.dfactor = "GL_ZERO"
    THEN [mode |-> "MOD", warn |-> <<>>]
  ELSE [mode |-> "BLEND", warn |-> <<>>]

\* the SDL blend mode returned, and the diagnostic written on the way
blend2sdl(blend) ==
  IF blend.sfactor = "GL_ONE" /\ blend.dfactor = "GL_ZERO"
    THEN [mode |-> "NONE", warn |-> <<>>]
  ELSE IF blend.sfactor = "GL_SRC_ALPHA" /\ blend.dfactor = "GL_ONE_MINUS_SRC_ALPHA"
    THEN [mode |-> "BLEND", warn |-> <<>>]
  ELSE IF blend.sfactor = "GL_SRC_ALPHA" /\ blend.dfactor = "GL_ONE"
    THEN [mode |-> "ADD", warn |-> <<>>]
  ELSE IF blend.sfactor = "GL_DST_COLOR" /\ blend.dfactor = "GL_ZERO"
    THEN [mode |-> "MOD", warn |-> <<>>]
  ELSE [mode |-> "BLEND", warn |-> <<UnknownBlend(blend)>>]

-----------------------------------------------------------------------------
(* The SDL renderer as the painter sees it.  An operation of the painter   *)
(* is a function from the backend state st it starts in to the backend     *)
(* state it leaves, in which calls, trace and log hold what it issued.     *)
(*   st.color, st.blend: draw colour and draw blend mode of the renderer   *)
(*   st.mod:             modulation stored on the texture                 *)
(* Every draw call is recorded with the draw colour, the draw blend mode   *)
(* and the texture modulation in effect when it is issued.                 *)

Backend(color, blend, mod) ==
  [color |-> color, blend |-> blend, mod |-> mod,
   calls |-> <<>>, trace |-> <<>>, log |-> <<>>, err |-> "none"]

SDL_SetRenderDrawColor(st, rgba) == [st EXCEPT !.color = rgba]

SDL_SetRenderDrawBlendMode(st, mode) == [st EXCEPT !.blend = mode]

\* SDL_SetTextureColorMod, SDL_SetTextureAlphaMod and SDL_SetTextureBlendMode
SDL_SetTextureMod(st, rgb, a, mode) ==
  [st EXCEPT !.mod = [color |-> rgb, alpha |-> a, blend |-> mode]]

log_warning(st, msgs) == [st EXCEPT !.log = @ \o msgs]

\* the record of a draw call op issued in state st: rects are its
\* rectangles, args its other arguments
Call(st, op, rects, args) ==
  [op |-> op, rects |-> rects, args |-> args,
   color |-> st.color, blend |-> st.blend, mod |-> st.mod]

Draw(st, op, rects, args) == [st EXCEPT !.calls = Append(@, Call(st, op, rects, args))]

SDL_RenderFillRect(st, rect) == Draw(st, "SDL_RenderFillRect", <<rect>>, <<>>)

SDL_RenderFillRects(st, rects) == Draw(st, "SDL_RenderFillRects", rects, <<>>)

SDL_RenderDrawLine(st, x1, y1, x2, y2) == Draw(st, "SDL_RenderDrawLine", <<>>, <<x1, y1, x2, y2>>)

SDL_RenderClear(st) == Draw(st, "SDL_RenderClear", <<>>, <<>>)

SDL_RenderCopyEx(st, srcrect, dstrect, angle, flip) ==
  Draw(st, "SDL_RenderCopyEx", <<srcrect, dstrect>>, <<angle, flip>>)

-----------------------------------------------------------------------------
(* draw_texture and the animated copy.                                     *)

\* CopyBlits that hands the destination rectangle to SDL_RenderCopy as the
\* source and the source rectangle as the destination
CopyBlits_swapped(st, tr) ==
  LET blits == Blits(tr)
  IN [st EXCEPT !.calls = @ \o [i \in 1..Len(blits) |->
                                  Call(st, "SDL_RenderCopy",
                                       <<to_sdl(blits[i].dst), to_sdl(blits[i].src)>>,
                                       <<0, {}>>)]]

\* the SDL_RenderCopy calls of a render_texture trace, issued in order
CopyBlits(st, tr) ==
  LET blits == Blits(tr)
  IN [st EXCEPT !.calls = @ \o [i \in 1..Len(blits) |->
                                  Call(st, "SDL_RenderCopy",
                                       <<to_sdl(blits[i].src), to_sdl(blits[i].dst)>>,
                                       <<0, {}>>)]]

\* RenderCopyEx that shifts the source position by the texture offset
\* without wrapping the sum into the texture
RenderCopyEx_unwrapped_src(st, texture, sdl_srcrect, sdl_dstrect, angle, flip, g_game_time) ==
  IF texture.animate[1] = 0 /\ texture.animate[2] = 0
  THEN SDL_RenderCopyEx(st, sdl_srcrect, sdl_dstrect, angle, flip)
  ELSE
    LET width  == texture.width
        height == texture.height
        tex_off_x == positive_mod(CDiv(texture.animate[1] * g_game_time, Den * Den), width)
        tex_off_y == positive_mod(CDiv(texture.animate[2] * g_game_time, Den * Den), height)
    IN IF (tex_off_x = 0 /\ tex_off_y = 0) \/ flip # {} \/ angle # 0
       THEN SDL_RenderCopyEx(st, sdl_srcrect, sdl_dstrect, angle, flip)
       ELSE
         LET tr == render_texture(RectSized(0, 0, width, height),
                                  RectSized(sdl_srcrect.x + tex_off_x,
                                            sdl_srcrect.y + tex_off_y,
                                            sdl_srcrect.w, sdl_srcrect.h),
                                  from_sdl(sdl_dstrect), <<0, 0>>, 1)
         IN CopyBlits([st EXCEPT !.trace = @ \o tr], tr)

\* RenderCopyEx that wraps around whatever the angle and the flip flags are
RenderCopyEx_always_wrap(st, texture, sdl_srcrect, sdl_dstrect, angle, flip, g_game_time) ==
  IF texture.animate[1] = 0 /\ texture.animate[2] = 0
  THEN SDL_RenderCopyEx(st, sdl_srcrect, sdl_dstrect, angle, flip)
  ELSE
    LET width  == texture.width
        height == texture.height
        tex_off_x == positive_mod(CDiv(texture.animate[1] * g_game_time, Den * Den), width)
        tex_off_y == positive_mod(CDiv(texture.animate[2] * g_game_time, Den * Den), height)
    IN IF tex_off_x = 0 /\ tex_off_y = 0
       THEN SDL_RenderCopyEx(st, sdl_srcrect, sdl_dstrect, angle, flip)
       ELSE
         LET tr == render_texture(RectSized(0, 0, width, height),
                                  RectSized(positive_mod(sdl_srcrect.x + tex_off_x, width),
                                            positive_mod(sdl_srcrect.y + tex_off_y, height),
                                            sdl_srcrect.w, sdl_srcrect.h),
                                  from_sdl(sdl_dstrect), <<0, 0>>, 1)
         IN CopyBlits([st EXCEPT !.trace = @ \o tr], tr)

\* texture.animate and g_game_time are fixed-point floats; width and height
\* are what SDL_QueryTexture reports
RenderCopyEx(st, texture, sdl_srcrect, sdl_dstrect, angle, flip, g_game_time) ==
  IF texture.animate[1] = 0 /\ texture.animate[2] = 0
  THEN SDL_RenderCopyEx(st, sdl_srcrect, sdl_dstrect, angle, flip)
  ELSE
    LET width  == texture.width
        height == texture.height
        tex_off_x == positive_mod(CDiv(texture.animate[1] * g_game_time, Den * Den), width)
        tex_off_y == positive_mod(CDiv(texture.animate[2] * g_game_time, Den * Den), height)
    IN IF (tex_off_x = 0 /\ tex_off_y = 0) \/ flip # {} \/ angle # 0
       THEN SDL_RenderCopyEx(st, sdl_srcrect, sdl_dstrect, angle, flip)
       ELSE
         LET tr == render_texture(RectSized(0, 0, width, height),
                                  RectSized(positive_mod(sdl_srcrect.x + tex_off_x, width),
                                            positive_mod(sdl_srcrect.y + tex_off_y, height),
                                            sdl_srcrect.w, sdl_srcrect.h),
                                  from_sdl(sdl_dstrect), <<0, 0>>, 1)
         IN CopyBlits([st EXCEPT !.trace = @ \o tr], tr)

\* a Rectf with fixed-point corners p1 = (x1, y1), p2 = (x2, y2)
Rectf(x1, y1, x2, y2) == [p1 |-> <<x1, y1>>, p2 |-> <<x2, y2>>]

\* the SDL_Rect draw_texture builds from a Rectf
RectfToSdl(r) ==
  [x |-> ToInt(r.p1[1]), y |-> ToInt(r.p1[2]),
   w |-> ToInt(r.p2[1] - r.p1[1]), h |-> ToInt(r.p2[2] - r.p1[2])]

\* SDL_RendererFlip from the request's flip bits
FlipOf(flip) ==
  (IF "HORIZONTAL_FLIP" \in flip THEN {"SDL_FLIP_HORIZONTAL"} ELSE {})
    \cup (IF "VERTICAL_FLIP" \in flip THEN {"SDL_FLIP_VERTICAL"} ELSE {})

RECURSIVE draw_texture_from(_, _, _)
draw_texture_from(st, request_, i) ==
  IF i > Len(request_.srcrects) THEN st
  ELSE
    LET rgba == Rgba8(request_.color)
        a    == ToU8(request_.color[4] * request_.alpha * 255, ColorDen * ColorDen)
        bl   == blend2sdl(request_.blend)
        st1  == SDL_SetTextureMod(log_warning(st, bl.warn), <<rgba[1], rgba[2], rgba[3]>>, a, bl.mode)
    IN draw_texture_from(
         RenderCopyEx(st1, request_.texture, RectfToSdl(request_.srcrects[i]),
                      RectfToSdl(request_.dstrects[i]), request_.angles[i],
                      FlipOf(request_.flip), request_.g_game_time),
         request_, i + 1)

\* SDLPainter::draw_texture (request_.g_game_time is the global g_game_time
\* at the time of the call)
draw_texture(st, request_) == draw_texture_from(st, request_, 1)

-----------------------------------------------------------------------------
(* draw_gradient.                                                          *)

\* the largest absolute channel difference, as a numerator over ColorDen
MaxChannelDelta(top, bottom) ==
  Max(Max(Abs(top[1] - bottom[1]), Abs(top[2] - bottom[2])),
      Max(Abs(top[3] - bottom[3]), Abs(top[4] - bottom[4])))

\* gradient_steps that leaves the alpha channel out of the largest difference
gradient_steps_rgb(top, bottom) ==
  Max(CDiv(Max(Max(Abs(top[1] - bottom[1]), Abs(top[2] - bottom[2])),
               Abs(top[3] - bottom[3])) * 255, ColorDen), 1)

\* the number of bands n
gradient_steps(top, bottom) == Max(CDiv(MaxChannelDelta(top, bottom) * 255, ColorDen), 1)

IsVertical(direction) == direction \in {"VERTICAL", "VERTICAL_SECTOR"}

IsSector(direction) == direction \in {"HORIZONTAL_SECTOR", "VERTICAL_SECTOR"}

\* the rectangle of band i of n
gradient_rect(region, direction, i, n) ==
  IF IsVertical(direction)
  THEN LET y == CDiv(region.p2[2] * i, Den * n)
       IN [x |-> ToInt(region.p1[1]), y |-> y, w |-> ToInt(region.p2[1]),
           h |-> CDiv(region.p2[2] * (i + 1) - y * Den * n, Den * n)]
  ELSE LET x == CDiv(region.p2[1] * i, Den * n)
       IN [x |-> x, y |-> ToInt(region.p1[2]),
           w |-> CDiv(region.p2[1] * (i + 1) - x * Den * n, Den * n),
           h |-> ToInt(region.p2[2])]

(* static_cast<Uint8>(f) of the float f = num / den.  The cast truncates   *)
(* toward zero when the truncated value is one of 0..255.  It is undefined *)
(* behaviour when the truncated value is not (C++ [conv.fpint]) and when f *)
(* is not a number, which is what the division by den = 0 leads to; the    *)
(* byte the build then produces is request_.undef_u8.                      *)
CastU8(num, den, request_) ==
  IF den = 0 THEN request_.undef_u8
  ELSE IF CDiv(num, den) \in 0..255 THEN CDiv(num, den)
  ELSE request_.undef_u8

(* The colour of band i of n.  With p = (i + 1) / n and, for the sector     *)
(* directions, begin_percentage = -p1.x / p2.x, the weight of bottom is    *)
(* A / B and the weight of top is (B - A) / B, where                       *)
(*   A / B = p                     = (i + 1) / n                plain      *)
(*   A / B = p + begin_percentage  = ((i + 1) p2.x - n p1.x) / (n p2.x)    *)
(* For a sector direction and p2.x = 0 begin_percentage is infinite or not *)
(* a number, and so is every channel.                                      *)
gradient_fraction(request_, i, n) ==
  LET region == request_.region
      sector == IsSector(request_.direction)
  IN [A |-> IF sector THEN (i + 1) * region.p2[1] - n * region.p1[1] ELSE i + 1,
      B |-> IF sector THEN n * region.p2[1] ELSE n]

\* channel k of band i of n before the cast to 8 bits, as num / den
gradient_channel(request_, i, n, k) ==
  LET f == gradient_fraction(request_, i, n)
  IN [num |-> ((f.B - f.A) * request_.top[k] + f.A * request_.bottom[k]) * 255,
      den |-> f.B * ColorDen]

gradient_color(request_, i, n) ==
  LET ch(k) == CastU8(gradient_channel(request_, i, n, k).num,
                      gradient_channel(request_, i, n, k).den, request_)
  IN <<ch(1), ch(2), ch(3), ch(4)>>

\* one pass of the loop body, for band i of n, from backend state st
gradient_band(st, request_, i, n) ==
  LET bl == blend2sdl(request_.blend)
  IN SDL_RenderFillRect(
       SDL_SetRenderDrawColor(
         SDL_SetRenderDrawBlendMode(log_warning(st, bl.warn), bl.mode),
         gradient_color(request_, i, n)),
       gradient_rect(request_.region, request_.direction, i, n))

(* SDLPainter::draw_gradient: the passes for i = 0 .. n - 1, one after the   *)
(* other.  A pass overwrites the draw blend mode and the draw colour before *)
(* it draws and appends to the calls and to the log, so the call of pass i  *)
(* is the one it would issue from st, and the renderer is left as the last  *)
(* pass leaves it.                                                         *)
draw_gradient(st, request_) ==
  LET n    == gradient_steps(request_.top, request_.bottom)
      from == [st EXCEPT !.calls = <<>>, !.log = <<>>]
      pass(i) == gradient_band(from, request_, i, n)
  IN [pass(n - 1) EXCEPT
        !.calls = st.calls \o [i \in 1..n |-> pass(i - 1).calls[1]],
        !.log = st.log \o [j \in 1..(n * Len(pass(0).log)) |-> pass(0).log[1]]]

-----------------------------------------------------------------------------
(* draw_filled_rect.                                                       *)

\* the SDL_Rect of the request
fill_rect(request_) ==
  [x |-> ToInt(request_.pos[1]), y |-> ToInt(request_.pos[2]),
   w |-> ToInt(request_.size[1]), h |-> ToInt(request_.size[2])]

\* the effective corner radius
fill_radius(request_) ==
  Min(Min(CDiv(fill_rect(request_).h, 2), CDiv(fill_rect(request_).w, 2)),
      ToInt(request_.radius))

(* The inset of strip i:                                                   *)
(*   radius - int(sqrtf(1 - p * p) * radius),  p = (i + 0.5) / radius.     *)
(* sqrt(1 - p * p) * radius = sqrt(4 radius^2 - (2 i + 1)^2) / 2; the      *)
(* radicand is 3 modulo 4, so the value is at least 1 / (8 radius) away    *)
(* from every integer and float rounding cannot change its integer part    *)
(* for the radii of the model.                                             *)
fill_xoff(radius, i) ==
  radius - (ISqrt(4 * radius * radius - (2 * i + 1) * (2 * i + 1)) \div 2)

\* fill_strips that narrows every strip by one inset only
RECURSIVE fill_strips_one_inset(_, _, _)
fill_strips_one_inset(rect, radius, i) ==
  IF i >= radius THEN <<>>
  ELSE
    LET xoff == fill_xoff(radius, i)
        tmp  == [x |-> rect.x + xoff, y |-> rect.y + (radius - i),
                 w |-> rect.w - xoff, h |-> 1]
        tmp2 == [x |-> rect.x + xoff, y |-> rect.y + rect.h - radius + i,
                 w |-> rect.w - xoff, h |-> 1]
    IN <<tmp>> \o (IF tmp2.y # tmp.y THEN <<tmp2>> ELSE <<>>)
       \o fill_strips_one_inset(rect, radius, i + 1)

\* fill_strips that adds the bottom strip of every iteration
RECURSIVE fill_strips_always_bottom(_, _, _)
fill_strips_always_bottom(rect, radius, i) ==
  IF i >= radius THEN <<>>
  ELSE
    LET xoff == fill_xoff(radius, i)
        tmp  == [x |-> rect.x + xoff, y |-> rect.y + (radius - i),
                 w |-> rect.w - 2 * xoff, h |-> 1]
        tmp2 == [x |-> rect.x + xoff, y |-> rect.y + rect.h - radius + i,
                 w |-> rect.w - 2 * xoff, h |-> 1]
    IN <<tmp, tmp2>> \o fill_strips_always_bottom(rect, radius, i + 1)

\* the top and bottom strip of every iteration from i on
RECURSIVE fill_strips(_, _, _)
fill_strips(rect, radius, i) ==
  IF i >= radius THEN <<>>
  ELSE
    LET xoff == fill_xoff(radius, i)
        tmp  == [x |-> rect.x + xoff, y |-> rect.y + (radius - i),
                 w |-> rect.w - 2 * xoff, h |-> 1]
        tmp2 == [x |-> rect.x + xoff, y |-> rect.y + rect.h - radius + i,
                 w |-> rect.w - 2 * xoff, h |-> 1]
    IN <<tmp>> \o (IF tmp2.y # tmp.y THEN <<tmp2>> ELSE <<>>)
       \o fill_strips(rect, radius, i + 1)

\* fill_center that starts the centre rectangle one row higher and makes it
\* one row taller
fill_center_no_gap(rect, radius) ==
  IF 2 * radius < rect.h
  THEN <<[x |-> rect.x, y |-> rect.y + radius, w |-> rect.w,
          h |-> rect.h - 2 * radius]>>
  ELSE <<>>

\* the centre rectangle
fill_center(rect, radius) ==
  IF 2 * radius < rect.h
  THEN <<[x |-> rect.x, y |-> rect.y + radius + 1, w |-> rect.w,
          h |-> rect.h - 2 * radius - 1]>>
  ELSE <<>>

\* draw_filled_rect that fills the rectangle of a request of radius 0 even
\* when it is empty
draw_filled_rect_fill_empty(st, request_) ==
  LET rect   == fill_rect(request_)
      rgba   == Rgba8(request_.color)
      radius == fill_radius(request_)
  IN IF radius # 0
     THEN IF 2 * radius + 1 < 0
          THEN [st EXCEPT !.err = "std::length_error"]
          ELSE SDL_RenderFillRects(
                 SDL_SetRenderDrawColor(SDL_SetRenderDrawBlendMode(st, "BLEND"), rgba),
                 fill_strips(rect, radius, 0) \o fill_center(rect, radius))
     ELSE SDL_RenderFillRect(
            SDL_SetRenderDrawColor(SDL_SetRenderDrawBlendMode(st, "BLEND"), rgba), rect)

(* SDLPainter::draw_filled_rect.  A negative effective radius makes         *)
(* rects.reserve(2 * slices + 1) ask for more than max_size() elements,     *)
(* which throws std::length_error before anything is drawn.                *)
draw_filled_rect(st, request_) ==
  LET rect   == fill_rect(request_)
      rgba   == Rgba8(request_.color)
      radius == fill_radius(request_)
  IN IF radius # 0
     THEN IF 2 * radius + 1 < 0
          THEN [st EXCEPT !.err = "std::length_error"]
          ELSE SDL_RenderFillRects(
                 SDL_SetRenderDrawColor(SDL_SetRenderDrawBlendMode(st, "BLEND"), rgba),
                 fill_strips(rect, radius, 0) \o fill_center(rect, radius))
     ELSE IF rect.w # 0 /\ rect.h # 0
          THEN SDL_RenderFillRect(
                 SDL_SetRenderDrawColor(SDL_SetRenderDrawBlendMode(st, "BLEND"), rgba), rect)
          ELSE st

-----------------------------------------------------------------------------
(* draw_inverse_ellipse.                                                   *)

max_slices == 256

\* int(sqrtf(1 - p * p) * w / 2) for slice i, p = ((i + 0.5) / slices) * 2 - 1
\* and the fixed-point width w: sqrt(1 - p * p) = sqrt(slices^2 - q^2) / slices
\* with q = 2 i + 1 - slices
ellipse_xoff(w, slices, i) ==
  LET q == 2 * i + 1 - slices
      m == ISqrt((slices * slices - q * q) * w * w) \div (2 * slices * Den)
  IN IF w >= 0 THEN m ELSE -m

\* the left and the right band of every slice from i on, in buffer order
ellipse_slices(request_, top, slices, i) ==
  [k \in 1..(2 * Max(slices - i, 0)) |->
     LET j    == i + ((k - 1) \div 2)
         xoff == ellipse_xoff(request_.size[1], slices, j)
         x    == ToInt(request_.pos[1])
         h    == ToInt(request_.size[2])
         ly   == top + CDiv(j * h, slices)
         lh   == top + CDiv((j + 1) * h, slices) - ly
     IN IF k % 2 = 1
        THEN [x |-> 0, y |-> ly, w |-> x - xoff, h |-> lh]
        ELSE [x |-> x + xoff, y |-> ly, w |-> request_.viewport[1] - (x + xoff), h |-> lh]]

\* the number of slices
ellipse_slice_count(request_) == Min(ToInt(request_.size[2]), max_slices)

\* the indices of SDL_Rect rects[2 * max_slices + 2] that are written
ellipse_writes(slices) ==
  { 2 * i + e : i \in 0..(slices - 1), e \in {0, 1} } \cup {2 * slices, 2 * slices + 1}

(* SDLPainter::draw_inverse_ellipse (request_.viewport is the screen size   *)
(* the video system reports).  With a negative number of slices top_rect    *)
(* and bottom_rect are written before the start of the buffer, which is     *)
(* undefined behaviour: the build either corrupts its stack               *)
(* (request_.undef_crash) or goes on to SDL_RenderFillRects with a count   *)
(* 2 * slices + 2 <= 0, for which the backend receives no rectangle.      *)
draw_inverse_ellipse(st, request_) ==
  LET top    == CDiv(2 * request_.pos[2] - request_.size[2], 2 * Den)
      slices == ellipse_slice_count(request_)
      top_rect    == [x |-> 0, y |-> 0, w |-> request_.viewport[1], h |-> top]
      bottom_y    == top + ToInt(request_.size[2])
      bottom_rect == [x |-> 0, y |-> bottom_y, w |-> request_.viewport[1],
                      h |-> request_.viewport[2] - bottom_y]
      colored == SDL_SetRenderDrawColor(SDL_SetRenderDrawBlendMode(st, "BLEND"),
                                        Rgba8(request_.color))
  IN IF ellipse_writes(slices) \subseteq 0..(2 * max_slices + 1)
     THEN SDL_RenderFillRects(colored,
                              ellipse_slices(request_, top, slices, 0)
                                \o <<top_rect, bottom_rect>>)
     ELSE IF request_.undef_crash
          THEN [st EXCEPT !.err = "stack corrupted"]
          ELSE SDL_RenderFillRects(colored, <<>>)

-----------------------------------------------------------------------------
(* draw_line and draw_triangle.                                            *)

\* draw_line that leaves the draw colour as it finds it
draw_line_keep_color(st, request_) ==
  SDL_RenderDrawLine(
    SDL_SetRenderDrawBlendMode(st, "BLEND"),
    ToInt(request_.pos[1]), ToInt(request_.pos[2]),
    ToInt(request_.dest_pos[1]), ToInt(request_.dest_pos[2]))

\* SDLPainter::draw_line
draw_line(st, request_) ==
  SDL_RenderDrawLine(
    SDL_SetRenderDrawColor(SDL_SetRenderDrawBlendMode(st, "BLEND"), Rgba8(request_.color)),
    ToInt(request_.pos[1]), ToInt(request_.pos[2]),
    ToInt(request_.dest_pos[1]), ToInt(request_.dest_pos[2]))

\* make_edge that keeps the order of the two points
make_edge_unordered(x1, y1, x2, y2) == [p1 |-> <<x1, y1>>, p2 |-> <<x2, y2>>]

\* an edge with the point of smaller y first (its coordinates are whole numbers)
make_edge(x1, y1, x2, y2) ==
  IF y1 < y2 THEN [p1 |-> <<x1, y1>>, p2 |-> <<x2, y2>>]
             ELSE [p1 |-> <<x2, y2>>, p2 |-> <<x1, y1>>]

(* The scanlines of draw_span_between_edges from row y on.  After k steps  *)
(* factor1 = (e2.p1.y - e1.p1.y + k) / e1ydiff and factor2 = k / e2ydiff.  *)
RECURSIVE draw_span_rows(_, _, _, _)
draw_span_rows(st, e1, e2, y) ==
  IF y >= e2.p2[2] THEN st
  ELSE
    LET e1ydiff == e1.p2[2] - e1.p1[2]
        e2ydiff == e2.p2[2] - e2.p1[2]
        e1xdiff == e1.p2[1] - e1.p1[1]
        e2xdiff == e2.p2[1] - e2.p1[1]
        k == y - e2.p1[2]
    IN draw_span_rows(
         SDL_RenderDrawLine(st,
           CDiv(e1.p1[1] * e1ydiff + e1xdiff * (e2.p1[2] - e1.p1[2] + k), e1ydiff), y,
           CDiv(e2.p1[1] * e2ydiff + e2xdiff * k, e2ydiff), y),
         e1, e2, y + 1)

draw_span_between_edges(st, e1, e2) ==
  IF e1.p2[2] - e1.p1[2] = 0 THEN st
  ELSE IF e2.p2[2] - e2.p1[2] = 0 THEN st
  ELSE draw_span_rows(st, e1, e2, e2.p1[2])

\* long_edge that takes the last edge of maximal vertical length
long_edge_last(edges) ==
  LET len(i) == edges[i + 1].p2[2] - edges[i + 1].p1[2]
      m0 == IF len(0) > 0 THEN len(0) ELSE 0
      e1 == IF len(1) >= m0 THEN 1 ELSE 0
      m1 == IF len(1) >= m0 THEN len(1) ELSE m0
  IN IF len(2) >= m1 THEN 2 ELSE e1

\* index (from 0) of the first edge whose vertical length exceeds that of
\* all edges before it and 0
long_edge(edges) ==
  LET len(i) == edges[i + 1].p2[2] - edges[i + 1].p1[2]
      m0 == IF len(0) > 0 THEN len(0) ELSE 0
      e1 == IF len(1) > m0 THEN 1 ELSE 0
      m1 == IF len(1) > m0 THEN len(1) ELSE m0
  IN IF len(2) > m1 THEN 2 ELSE e1

\* SDLPainter::draw_triangle
draw_triangle(st, request_) ==
  LET x1 == ToInt(request_.pos1[1])
      y1 == ToInt(request_.pos1[2])
      x2 == ToInt(request_.pos2[1])
      y2 == ToInt(request_.pos2[2])
      x3 == ToInt(request_.pos3[1])
      y3 == ToInt(request_.pos3[2])
      edges == <<make_edge(x1, y1, x2, y2), make_edge(x2, y2, x3, y3), make_edge(x3, y3, x1, y1)>>
      longEdge   == long_edge(edges)
      shortEdge1 == (longEdge + 1) % 3
      shortEdge2 == (longEdge + 2) % 3
  IN draw_span_between_edges(
       draw_span_between_edges(
         SDL_SetRenderDrawColor(SDL_SetRenderDrawBlendMode(st, "BLEND"), Rgba8(request_.color)),
         edges[longEdge + 1], edges[shortEdge1 + 1]),
       edges[longEdge + 1], edges[shortEdge2 + 1])

-----------------------------------------------------------------------------
(* clear, the clip rectangle and get_pixel.                                *)

\* an absent and a present boost::optional
None == <<>>

Some(v) == <<v>>

\* clear that leaves the draw blend mode alone when it fills the clip rectangle
clear_keep_blend(st, color, cliprect) ==
  LET st1 == SDL_SetRenderDrawColor(st, Rgba8(color))
  IN IF cliprect # None
     THEN SDL_RenderFillRect(st1, cliprect[1])
     ELSE SDL_RenderClear(st1)

\* SDLPainter::clear with m_cliprect = cliprect
clear(st, color, cliprect) ==
  LET st1 == SDL_SetRenderDrawColor(st, Rgba8(color))
  IN IF cliprect # None
     THEN SDL_RenderFillRect(SDL_SetRenderDrawBlendMode(st1, "NONE"), cliprect[1])
     ELSE SDL_RenderClear(st1)

-----------------------------------------------------------------------------
(* State after construction of the painter (SDL's defaults for a fresh     *)
(* renderer and texture).                                                 *)

NoRequest == [kind |-> "none"]

InitPainter ==
  /\ m_cliprect = None
  /\ sdl_clip = None
  /\ draw_color = <<0, 0, 0, 255>>
  /\ draw_blend = "NONE"
  /\ tex_mod = [color |-> <<255, 255, 255>>, alpha |-> 255, blend |-> "NONE"]
  /\ color_slot = <<255, 255, 255>>

\* TextObject::TextObject
InitTextObject ==
  /\ m_fading = 0
  /\ m_fadetime = 0
  /\ m_visible = FALSE

\* ObjectSettings::ObjectSettings
InitObjectSettings == m_options = <<>>

\* the backend state an operation of the painter starts in
Here == Backend(draw_color, draw_blend, tex_mod)

\* the operation ran on request req and left the backend in state out (it
\* has no access to a TextObject or to an ObjectSettings)
Commit(out, req) ==
  /\ UNCHANGED <<text_vars, m_options>>
  /\ request' = req
  /\ calls' = out.calls
  /\ trace' = out.trace
  /\ log' = out.log
  /\ err' = out.err
  /\ draw_color' = out.color
  /\ draw_blend' = out.blend
  /\ tex_mod' = out.mod

-----------------------------------------------------------------------------
(* The operations of the painter.                                          *)

DrawTexture(req) ==
  /\ Commit(draw_texture(Here, req), req)
  /\ UNCHANGED <<m_cliprect, sdl_clip, color_slot>>

DrawGradient(req) ==
  /\ Commit(draw_gradient(Here, req), req)
  /\ UNCHANGED <<m_cliprect, sdl_clip, color_slot>>

DrawFilledRect(req) ==
  /\ Commit(draw_filled_rect(Here, req), req)
  /\ UNCHANGED <<m_cliprect, sdl_clip, color_slot>>

DrawInverseEllipse(req) ==
  /\ Commit(draw_inverse_ellipse(Here, req), req)
  /\ UNCHANGED <<m_cliprect, sdl_clip, color_slot>>

DrawLine(req) ==
  /\ Commit(draw_line(Here, req), req)
  /\ UNCHANGED <<m_cliprect, sdl_clip, color_slot>>

DrawTriangle(req) ==
  /\ Commit(draw_triangle(Here, req), req)
  /\ UNCHANGED <<m_cliprect, sdl_clip, color_slot>>

Clear(req) ==
  /\ Commit(clear(Here, req.color, m_cliprect), req)
  /\ UNCHANGED <<m_cliprect, sdl_clip, color_slot>>

ClipFailed(fn) == [msg |-> fn \o "(): SDL_RenderSetClipRect() failed"]

(* SDLPainter::set_clip_rect; req.sdl_ok tells whether SDL_RenderSetClipRect *)
(* succeeds (returns 0) or fails (returns a negative value and leaves the   *)
(* renderer's clip rectangle as it was).                                    *)
SetClipRect(req) ==
  /\ m_cliprect' = Some(to_sdl(req.rect))
  /\ sdl_clip' = IF req.sdl_ok THEN Some(to_sdl(req.rect)) ELSE sdl_clip
  /\ Commit(log_warning(Here, IF req.sdl_ok THEN <<>>
                              ELSE <<ClipFailed("SDLPainter::set_clip_rect")>>), req)
  /\ UNCHANGED color_slot

\* SDLPainter::clear_clip_rect
ClearClipRect(req) ==
  /\ m_cliprect' = None
  /\ sdl_clip' = IF req.sdl_ok THEN None ELSE sdl_clip
  /\ Commit(log_warning(Here, IF req.sdl_ok THEN <<>>
                              ELSE <<ClipFailed("SDLPainter::clear_clip_rect")>>), req)
  /\ UNCHANGED color_slot

\* Color::from_rgb888: the channels of the colour, as numerators over 255
from_rgb888(r, g, b) == <<r, g, b>>

\* the 1 x 1 rectangle get_pixel reads (req.rect and req.logical_size are
\* what the renderer reports)
get_pixel_rect(req) ==
  [x |-> req.rect.left
         + CDiv(req.pos[1] * get_width(req.rect), Den * req.logical_size[1]),
   y |-> req.rect.top
         + CDiv(req.pos[2] * get_height(req.rect), Den * req.logical_size[2]),
   w |-> 1, h |-> 1]

(* The rendering target as the calls of the last request left it.  Draw    *)
(* calls take logical coordinates, which the renderer scales to the pixels *)
(* of req.rect; SDL_RenderReadPixels takes a pixel p of the target.        *)

\* the rectangle r of logical coordinates covers pixel p of the target
covers_pixel(r, req, p) ==
  /\ r.x * get_width(req.rect) <= (p.x - req.rect.left) * req.logical_size[1]
  /\ (p.x - req.rect.left) * req.logical_size[1] < (r.x + r.w) * get_width(req.rect)
  /\ r.y * get_height(req.rect) <= (p.y - req.rect.top) * req.logical_size[2]
  /\ (p.y - req.rect.top) * req.logical_size[2] < (r.y + r.h) * get_height(req.rect)

\* the backend call c, issued while the renderer clips to clip, may write
\* the pixel get_pixel reads for req: fills, copies and lines inside the
\* clip rectangle (a line anywhere in its bounding box, a rotated copy
\* anywhere), the full-target clear everywhere
touches_pixel(c, clip, req) ==
  LET p == get_pixel_rect(req)
      visible == clip = None \/ covers_pixel(clip[1], req, p)
  IN CASE c.op = "SDL_RenderClear" -> TRUE
       [] c.op \in {"SDL_RenderFillRect", "SDL_RenderFillRects"} ->
            visible /\ \E j \in 1..Len(c.rects) : covers_pixel(c.rects[j], req, p)
       [] c.op = "SDL_RenderCopy" -> visible /\ covers_pixel(c.rects[2], req, p)
       [] c.op = "SDL_RenderCopyEx" ->
            visible /\ (c.args[1] # 0 \/ covers_pixel(c.rects[2], req, p))
       [] c.op = "SDL_RenderDrawLine" ->
            visible /\ covers_pixel([x |-> Min(c.args[1], c.args[3]),
                                     y |-> Min(c.args[2], c.args[4]),
                                     w |-> Abs(c.args[1] - c.args[3]) + 1,
                                     h |-> Abs(c.args[2] - c.args[4]) + 1], req, p)
       [] OTHER -> FALSE

(* The red, green and blue byte of the pixel get_pixel reads for req, when *)
(* the calls cs of the last request settle them: the last call that        *)
(* touches the pixel is a clear, a fill without blending or a fill with    *)
(* BLEND and an opaque colour.  None when they do not (the pixel was left  *)
(* alone, or written by a copy, a line or a blended fill).                 *)
target_pixel(cs, clip, req) ==
  LET writes == { i \in 1..Len(cs) : touches_pixel(cs[i], clip, req) }
  IN IF writes = {} THEN None
     ELSE LET c == cs[CHOOSE i \in writes : \A k \in writes : k <= i]
          IN IF \/ c.op = "SDL_RenderClear"
                \/ /\ c.op \in {"SDL_RenderFillRect", "SDL_RenderFillRects"}
                   /\ c.blend = "NONE" \/ (c.blend = "BLEND" /\ c.color[4] = 255)
             THEN Some(<<c.color[1], c.color[2], c.color[3]>>)
             ELSE None

(* SDLPainter::get_pixel.  The local buffer holds four bytes after          *)
(* SDL_RenderReadPixels: when the call succeeded (req.sdl_ok) the pixel of  *)
(* the target in the byte order of SDL_PIXELFORMAT_RGB888 (blue, green,     *)
(* red, unused), which is what the last request left there where that is    *)
(* settled and the bytes of pixel where it is not; when the call failed,    *)
(* the indeterminate bytes of the uninitialised buffer, again pixel.        *)
GetPixel(req, pixel) ==
  LET known == target_pixel(calls, sdl_clip, req)
      buffer == IF req.sdl_ok /\ known # None
                THEN <<known[1][3], known[1][2], known[1][1], pixel[4]>>
                ELSE pixel
  IN /\ color_slot' = from_rgb888(buffer[3], buffer[2], buffer[1])
     /\ Commit(log_warning(Draw(Here, "SDL_RenderReadPixels", <<get_pixel_rect(req)>>, <<>>),
                           IF req.sdl_ok THEN <<>> ELSE <<[msg |-> "failed to read pixels"]>>),
               req)
     /\ UNCHANGED <<m_cliprect, sdl_clip>>

-----------------------------------------------------------------------------
(* The requests the model submits.                                         *)

Red == <<ColorDen, 0, 0, ColorDen>>

Blue == <<0, 0, ColorDen, ColorDen>>

Faint == <<2, 0, 0, 0>>

Black0 == <<0, 0, 0, 0>>

AlphaBlend == Blend("GL_SRC_ALPHA", "GL_ONE_MINUS_SRC_ALPHA")

Additive == Blend("GL_SRC_ALPHA", "GL_ONE")

TextureRequests ==
  { [kind |-> "texture",
     texture |-> [width |-> 2, height |-> 2, animate |-> animate],
     g_game_time |-> Den,
     srcrects |-> <<Rectf(0, 0, 3 * Den, 2 * Den)>>,
     dstrects |-> <<Rectf(Den, Den, 4 * Den, 3 * Den)>>,
     angles |-> <<angle>>,
     flip |-> flip, color |-> Red, alpha |-> ColorDen, blend |-> AlphaBlend] :
      animate \in {<<0, 0>>, <<Den, 0>>},
      angle \in {0, 90 * Den},
      flip \in {{}, {"VERTICAL_FLIP"}} }

GradientRequests ==
  { [kind |-> "gradient", top |-> c[1], bottom |-> c[2], direction |-> c[3],
     region |-> Rectf(0, 0, 8 * Den, 6 * Den), blend |-> blend] :
      c \in {<<Red, Red, "VERTICAL">>, <<Black0, Faint, "HORIZONTAL_SECTOR">>},
      blend \in {AlphaBlend, Additive} }

FillRectRequests ==
  { [kind |-> "filled_rect", pos |-> <<Den, 3>>, size |-> size, color |-> Blue,
     radius |-> radius] :
      size \in {<<0, 4 * Den>>, <<6 * Den, 4 * Den>>}, radius \in {0, 2 * Den} }

InverseEllipseRequests ==
  { [kind |-> "inverse_ellipse", pos |-> <<4 * Den, 3 * Den>>, size |-> size,
     color |-> Red, viewport |-> <<8, 6>>] :
      size \in {<<4 * Den, 0>>, <<4 * Den, 2 * Den>>} }

LineRequests ==
  { [kind |-> "line", pos |-> <<0, 1>>, dest_pos |-> <<4 * Den, 3>>, color |-> color] :
      color \in {Red, Blue} }

TriangleRequests ==
  { [kind |-> "triangle", pos1 |-> <<0, 0>>, pos2 |-> <<4 * Den, p2y>>,
     pos3 |-> <<Den, 4 * Den>>, color |-> Blue] :
      p2y \in {0, 2 * Den} }

ClearRequests == { [kind |-> "clear", color |-> color] : color \in {Red, Black0} }

SetClipRequests ==
  { [kind |-> "set_clip_rect", rect |-> rect, sdl_ok |-> ok] :
      rect \in {Rect(0, 0, 4, 3), Rect(1, 1, 3, 2)}, ok \in BOOLEAN }

ClearClipRequests == { [kind |-> "clear_clip_rect", sdl_ok |-> ok] : ok \in BOOLEAN }

GetPixelRequests ==
  { [kind |-> "get_pixel", pos |-> <<3 * Den, 5>>, rect |-> Rect(0, 0, 16, 12),
     logical_size |-> <<8, 6>>, sdl_ok |-> ok] : ok \in BOOLEAN }

\* contents of the four-byte pixel buffer: blue and red in the byte
\* order of SDL_PIXELFORMAT_RGB888
PixelBytes == {<<255, 0, 0, 0>>, <<0, 0, 255, 0>>}

-----------------------------------------------------------------------------
(* The painter: any sequence of requests, in any order.                    *)

Init ==
  /\ InitPainter
  /\ InitTextObject
  /\ InitObjectSettings
  /\ pc = "idle"
  /\ request = NoRequest
  /\ calls = <<>>
  /\ trace = <<>>
  /\ log = <<>>
  /\ err = "none"

Next ==
  /\ pc = "idle"
  /\ pc' = pc
  /\ \/ \E req \in TextureRequests : DrawTexture(req)
     \/ \E req \in GradientRequests : DrawGradient(req)
     \/ \E req \in FillRectRequests : DrawFilledRect(req)
     \/ \E req \in InverseEllipseRequests : DrawInverseEllipse(req)
     \/ \E req \in LineRequests : DrawLine(req)
     \/ \E req \in TriangleRequests : DrawTriangle(req)
     \/ \E req \in ClearRequests : Clear(req)
     \/ \E req \in SetClipRequests : SetClipRect(req)
     \/ \E req \in ClearClipRequests : ClearClipRect(req)
     \/ \E req \in GetPixelRequests, pixel \in PixelBytes : GetPixel(req, pixel)

Spec == Init /\ [][Next]_vars

-----------------------------------------------------------------------------
(* The wraparound renderer on its own: render_texture applied to every     *)
(* texture size, anchored source rectangle and destination rectangle       *)
(* within the bounds.                                                     *)

WrapRequests ==
  { [kind |-> "render_texture",
     imgrect |-> RectSized(0, 0, W, H),
     srcrect |-> RectSized(l, t, w, h),
     dstrect |-> RectSized(-1, 2, dw, dh)] :
      W \in 1..MaxTex, H \in 1..MaxTex, l \in 0..(MaxTex - 1), t \in 0..(MaxTex - 1),
      w \in 0..MaxSpan, h \in 0..MaxSpan, dw \in 0..MaxDst, dh \in 0..MaxDst }

\* the state in which the caller is about to run one operation on a request
InitUnit(requests) ==
  /\ InitPainter
  /\ InitTextObject
  /\ InitObjectSettings
  /\ pc = "pending"
  /\ request \in requests
  /\ calls = <<>>
  /\ trace = <<>>
  /\ log = <<>>
  /\ err = "none"

InitWrap ==
  InitUnit({ q \in WrapRequests :
               RectContainsPoint(q.imgrect, q.srcrect.left, q.srcrect.top) })

RenderTexture ==
  /\ pc = "pending"
  /\ request.kind = "render_texture"
  /\ LET tr == render_texture(request.imgrect, request.srcrect, request.dstrect, <<0, 0>>, 1)
     IN Commit(CopyBlits([Here EXCEPT !.trace = tr], tr), request)
  /\ pc' = "done"
  /\ UNCHANGED <<m_cliprect, sdl_clip, color_slot>>

NextWrap == RenderTexture

SpecWrap == InitWrap /\ [][NextWrap]_vars

-----------------------------------------------------------------------------
(* The blend resolver on its own: a gradient drawn with every pair of      *)
(* blend factors.                                                         *)

BlendRequests ==
  { [kind |-> "gradient", top |-> Red, bottom |-> Red, direction |-> "VERTICAL",
     region |-> Rectf(0, 0, 8 * Den, 6 * Den), blend |-> Blend(sfactor, dfactor)] :
      sfactor \in Factors, dfactor \in Factors }

InitBlend == InitUnit(BlendRequests)

NextBlend ==
  /\ pc = "pending"
  /\ DrawGradient(request)
  /\ pc' = "done"

SpecBlend == InitBlend /\ [][NextBlend]_vars

-----------------------------------------------------------------------------
(* draw_gradient on its own: every pair of colours of a small palette, in  *)
(* every direction, over a region, a region whose visible window starts    *)
(* past the origin of the gradient and a region of width 0.                *)

\* largest red and green channel of a palette colour, in steps of 1 / ColorDen
MaxShade == 3

GradColors ==
  { <<r, g, 0, ColorDen>> : r \in 0..MaxShade, g \in {0, MaxShade} } \cup {Black0}

GradientUnitRequests ==
  { [kind |-> "gradient", top |-> top, bottom |-> bottom, direction |-> direction,
     region |-> region, blend |-> AlphaBlend, undef_u8 |-> u] :
      top \in GradColors, bottom \in GradColors,
      direction \in {"VERTICAL", "HORIZONTAL", "VERTICAL_SECTOR", "HORIZONTAL_SECTOR"},
      region \in {Rectf(0, 0, 8 * Den, 6 * Den), Rectf(-2 * Den, 0, 8 * Den, 6 * Den),
                  Rectf(0, 0, 0, 6 * Den)},
      u \in {0, 255} }

InitGradient == InitUnit(GradientUnitRequests)

NextGradient ==
  /\ pc = "pending"
  /\ DrawGradient(request)
  /\ pc' = "done"

SpecGradient == InitGradient /\ [][NextGradient]_vars

-----------------------------------------------------------------------------
(* The animated copy on its own.                                           *)

\* largest source position and size of a copy request
MaxCopy == 3

CopyRequests ==
  { [kind |-> "RenderCopyEx",
     texture |-> [width |-> W, height |-> 2, animate |-> animate],
     g_game_time |-> time,
     srcrect |-> [x |-> x, y |-> 1 - x, w |-> w, h |-> 2],
     dstrect |-> [x |-> 1, y |-> 1, w |-> w, h |-> 2],
     angle |-> angle, flip |-> flip] :
      W \in 1..MaxTex,
      animate \in {<<0, 0>>, <<Den, 0>>, <<-3, 1>>, <<0, 5>>},
      time \in {0, 1, Den, 3 * Den},
      x \in -1..MaxCopy, w \in 0..MaxCopy,
      angle \in {0, 1, 90 * Den},
      flip \in SUBSET {"SDL_FLIP_HORIZONTAL", "SDL_FLIP_VERTICAL"} }

InitCopy == InitUnit(CopyRequests)

RenderCopy ==
  /\ pc = "pending"
  /\ request.kind = "RenderCopyEx"
  /\ Commit(RenderCopyEx(Here, request.texture, request.srcrect, request.dstrect,
                         request.angle, request.flip, request.g_game_time), request)
  /\ pc' = "done"
  /\ UNCHANGED <<m_cliprect, sdl_clip, color_slot>>

NextCopy == RenderCopy

SpecCopy == InitCopy /\ [][NextCopy]_vars

-----------------------------------------------------------------------------
(* draw_filled_rect on its own.                                            *)

\* largest width, height and radius of a filled rectangle, in pixels
MaxFill == 7

\* the fixed-point floats from lo to hi + 1/2 in steps of 1/2
Halves(lo, hi) == { Den * k + e : k \in lo..hi, e \in {0, 1} }

FillRequests ==
  { [kind |-> "filled_rect", pos |-> pos, size |-> <<w, h>>, color |-> Blue,
     radius |-> radius] :
      pos \in {<<0, 0>>, <<-3, 5>>}, w \in Halves(-2, MaxFill), h \in Halves(-2, MaxFill),
      radius \in Halves(0, MaxFill) }

InitFill == InitUnit(FillRequests)

NextFill ==
  /\ pc = "pending"
  /\ DrawFilledRect(request)
  /\ pc' = "done"

SpecFill == InitFill /\ [][NextFill]_vars

-----------------------------------------------------------------------------
(* draw_triangle on its own: every triangle with corners on a small grid.  *)

\* largest coordinate of a corner of a triangle, in pixels
MaxTri == 2

TriangleUnitRequests ==
  { [kind |-> "triangle", pos1 |-> <<Den * c[1], Den * c[2]>>,
     pos2 |-> <<Den * c[3], Den * c[4]>>, pos3 |-> <<Den * c[5], Den * c[6]>>,
     color |-> Blue] : c \in [1..6 -> 0..MaxTri] }

InitTriangle == InitUnit(TriangleUnitRequests)

NextTriangle ==
  /\ pc = "pending"
  /\ DrawTriangle(request)
  /\ pc' = "done"

SpecTriangle == InitTriangle /\ [][NextTriangle]_vars

-----------------------------------------------------------------------------
(* draw_inverse_ellipse on its own: small, negative and empty sizes, and   *)
(* heights around the capacity of the band buffer.                         *)

\* largest height of a small ellipse, in pixels
MaxEllipse == 3

EllipseRequests ==
  { [kind |-> "inverse_ellipse", pos |-> pos, size |-> <<w, h>>, color |-> Red,
     viewport |-> <<8, 6>>, undef_crash |-> u] :
      pos \in {<<4 * Den, 3 * Den>>, <<Den + 1, 5 * Den>>},
      w \in {-2 * Den, 0, 3 * Den + 1, 4 * Den},
      h \in Halves(-2, MaxEllipse), u \in BOOLEAN }
  \cup
  { [kind |-> "inverse_ellipse", pos |-> <<4 * Den, 3 * Den>>, size |-> <<4 * Den, h>>,
     color |-> Red, viewport |-> <<8, 6>>, undef_crash |-> FALSE] :
      h \in { Den * max_slices - 1, Den * max_slices, Den * (max_slices + 1) + 1 } }

InitEllipse == InitUnit(EllipseRequests)

NextEllipse ==
  /\ pc = "pending"
  /\ DrawInverseEllipse(request)
  /\ pc' = "done"

SpecEllipse == InitEllipse /\ [][NextEllipse]_vars

-----------------------------------------------------------------------------
(* TextObject: the fade (src/object/text_object.cpp).                      *)
(*                                                                         *)
(* Times are single-precision floats.  The model measures them in ticks,   *)
(* a tick being some power of two of a second: the integer v stands for    *)
(* the float v ticks, and every result of an addition or subtraction is    *)
(* rounded to the nearest float, as the hardware does.                     *)

\* the distance between neighbouring floats at magnitude a >= 0 (whole ticks)
RECURSIVE Ulp(_)
Ulp(a) == IF a < 2^24 THEN 1 ELSE 2 * Ulp(a \div 2)

\* the float nearest to the whole number v, ties to the even significand
F32(v) ==
  LET a   == Abs(v)
      q   == Ulp(a)
      r   == a % q
      low == a - r
      n   == IF 2 * r < q THEN low
             ELSE IF 2 * r > q THEN low + q
             ELSE IF (low \div q) % 2 = 0 THEN low ELSE low + q
  IN IF v < 0 THEN -n ELSE n

\* a TextObject, as the record of the fields the fade uses
Self == [m_fading |-> m_fading, m_fadetime |-> m_fadetime, m_visible |-> m_visible]

\* TextObject::fade_in
fade_in(self, fadetime_) ==
  [self EXCEPT !.m_fadetime = fadetime_, !.m_fading = fadetime_]

\* TextObject::fade_out
fade_out(self, fadetime_) ==
  [self EXCEPT !.m_fadetime = fadetime_, !.m_fading = -fadetime_]

\* TextObject::set_visible
set_visible(self, visible_) ==
  [self EXCEPT !.m_visible = visible_, !.m_fading = 0]

\* update that shows or hides the text without ending the fade
update_keep_fading(self, dt_sec) ==
  IF self.m_fading > 0
  THEN LET f == F32(self.m_fading - dt_sec)
       IN IF f <= 0 THEN [self EXCEPT !.m_fading = f, !.m_visible = TRUE]
          ELSE [self EXCEPT !.m_fading = f]
  ELSE IF self.m_fading < 0
  THEN LET f == F32(self.m_fading + dt_sec)
       IN IF f >= 0 THEN [self EXCEPT !.m_fading = f, !.m_visible = FALSE]
          ELSE [self EXCEPT !.m_fading = f]
  ELSE self

\* TextObject::update
update(self, dt_sec) ==
  IF self.m_fading > 0
  THEN LET f == F32(self.m_fading - dt_sec)
       IN IF f <= 0 THEN [self EXCEPT !.m_fading = 0, !.m_visible = TRUE]
          ELSE [self EXCEPT !.m_fading = f]
  ELSE IF self.m_fading < 0
  THEN LET f == F32(self.m_fading + dt_sec)
       IN IF f >= 0 THEN [self EXCEPT !.m_fading = 0, !.m_visible = FALSE]
          ELSE [self EXCEPT !.m_fading = f]
  ELSE self

\* the TextObject is left as the record out
Store(out) ==
  /\ m_fading' = out.m_fading
  /\ m_fadetime' = out.m_fadetime
  /\ m_visible' = out.m_visible
  /\ UNCHANGED <<request, calls, trace, log, err, painter_vars, m_options>>

\* longest short fade and longest frame time, in ticks
MaxFade == 6

MaxDt == 2

\* short fades, and one of 2^29 ticks: the floats next to 2^29 are 32 and
\* 64 ticks away
FadeTimes == (1..MaxFade) \cup {2^29}

FrameTimes == 1..MaxDt

TextRequests ==
  { [kind |-> kind, fadetime |-> t] : kind \in {"fade_in", "fade_out"}, t \in FadeTimes }

InitText == InitUnit(TextRequests)

\* the script starts the fade of the request
FadeIn ==
  /\ pc = "pending"
  /\ request.kind = "fade_in"
  /\ Store(fade_in(Self, request.fadetime))
  /\ pc' = "fading"

FadeOut ==
  /\ pc = "pending"
  /\ request.kind = "fade_out"
  /\ Store(fade_out(Self, request.fadetime))
  /\ pc' = "fading"

\* the script shows or hides the text, before the fade or once during it
SetVisible(visible_) ==
  /\ pc \in {"pending", "fading"}
  /\ Store(set_visible(Self, visible_))
  /\ pc' = IF pc = "pending" THEN "pending" ELSE "cancelled"

\* the frame loop updates the object
Update(dt_sec) ==
  /\ Store(update(Self, dt_sec))
  /\ pc' = pc

NextText ==
  \/ FadeIn
  \/ FadeOut
  \/ \E visible_ \in BOOLEAN : SetVisible(visible_)
  \/ \E dt_sec \in FrameTimes : Update(dt_sec)

SpecText == InitText /\ [][NextText]_vars

\* the frame loop keeps calling update
SpecTextFair == SpecText /\ WF_vars(\E dt_sec \in FrameTimes : Update(dt_sec))

-----------------------------------------------------------------------------
(* ObjectSettings::reorder (src/editor/object_settings.cpp).               *)
(*                                                                         *)
(* An option is the record [id, key]: id tells the objects apart (the      *)
(* place add_option gave it), key is ObjectOption::get_key().  A           *)
(* std::unique_ptr<ObjectOption> is Some(option), or None once it has been *)
(* moved from.                                                             *)

\* std::find(order.begin(), order.end(), key) != order.end()
InOrder(order, key) == \E k \in 1..Len(order) : order[k] = key

\* the first loop: the options whose key is not in order, in their order
unnamed_options(options, order) ==
  SelectSeq(options, LAMBDA o : o # None /\ ~InOrder(order, o[1].key))

\* m_options after the first loop: those options are moved from
after_unnamed(options, order) ==
  [i \in 1..Len(options) |->
     IF options[i] # None /\ ~InOrder(order, options[i][1].key) THEN None ELSE options[i]]

\* std::find_if: the places of options that holds an option of this key
Found(options, option_name) ==
  { i \in 1..Len(options) : options[i] # None /\ options[i][1].key = option_name }

(* The second loop from the k-th name of order on: st.m_options and         *)
(* st.new_options are the two vectors.                                     *)
RECURSIVE named_options(_, _, _)
named_options(st, order, k) ==
  IF k > Len(order) THEN st
  ELSE
    LET found == Found(st.m_options, order[k])
        it    == CHOOSE i \in found : \A j \in found : i <= j
    IN IF found # {}
       THEN named_options([m_options   |-> [st.m_options EXCEPT ![it] = None],
                           new_options |-> Append(st.new_options, st.m_options[it])],
                          order, k + 1)
       ELSE named_options(st, order, k + 1)

\* the two vectors at the assertion of ObjectSettings::reorder
reorder(options, order) ==
  named_options([m_options   |-> after_unnamed(options, order),
                 new_options |-> unnamed_options(options, order)], order, 1)

\* most options of an ObjectSettings and most names of an order
MaxOptions == 3

MaxOrder == 2

\* the keys of options, and the names an order can hold (one of them is the
\* key of no option)
Keys == {"a", "b"}

Names == Keys \cup {"c"}

ReorderRequests ==
  { [kind |-> "reorder", order |-> order] :
      order \in UNION { [1..n -> Names] : n \in 0..MaxOrder } }

InitReorder == InitUnit(ReorderRequests)

\* ObjectSettings::add_option
AddOption(key) ==
  /\ pc = "pending"
  /\ Len(m_options) < MaxOptions
  /\ m_options' = Append(m_options, Some([id |-> Len(m_options) + 1, key |-> key]))
  /\ UNCHANGED <<pc, request, calls, trace, log, err, painter_vars, text_vars>>

(* ObjectSettings::reorder.  A failed assertion ends a build with           *)
(* assertions; a build without them goes on to the assignment.            *)
Reorder ==
  /\ pc = "pending"
  /\ LET st == reorder(m_options, request.order)
     IN /\ err' = IF Len(st.m_options) = Len(st.new_options) THEN "none"
                  ELSE "assert(m_options.size() == new_options.size())"
        /\ m_options' = st.new_options
  /\ pc' = "done"
  /\ UNCHANGED <<request, calls, trace, log, painter_vars, text_vars>>

NextReorder ==
  \/ \E key \in Keys : AddOption(key)
  \/ Reorder

SpecReorder == InitReorder /\ [][NextReorder]_vars

-----------------------------------------------------------------------------
(* Properties of the wraparound renderer (checked under SpecWrap).         *)

WrapDone == pc = "done" /\ request.kind = "render_texture"

\* the cells (unit squares, named by their top-left corner) of a rectangle
Cells(rect) == (rect.left .. (rect.right - 1)) \X (rect.top .. (rect.bottom - 1))

\* the source rectangle of a trace entry, translated back into the
\* coordinates of the top-level srcrect
Unwrapped(e) ==
  Rect(e.src.left + e.off[1], e.src.top + e.off[2],
       e.src.right + e.off[1], e.src.bottom + e.off[2])

\* the entries of the trace of kind ev whose unwrapped source covers cell c
Covering(ev, c) ==
  { i \in 1..Len(trace) : /\ trace[i].ev = ev
                          /\ RectContainsPoint(Unwrapped(trace[i]), c[1], c[2]) }

\* a call that returns at once because its destination collapsed to nothing
\* although its source is not empty
IsDrop(e) == e.ev = "call" /\ ~RectEmpty(e.src) /\ RectEmpty(e.dst)

DropsCovering(c) ==
  { i \in 1..Len(trace) : /\ IsDrop(trace[i])
                          /\ RectContainsPoint(Unwrapped(trace[i]), c[1], c[2]) }

\* C1 as stated (read with a non-empty dstrect): the unwrapped sources of
\* the blits of render_texture cover every cell of srcrect exactly once and
\* nothing outside srcrect.
C1_Original ==
  (WrapDone /\ ~RectEmpty(request.srcrect) /\ ~RectEmpty(request.dstrect)) =>
    /\ \A c \in Cells(request.srcrect) : Cardinality(Covering("blit", c)) = 1
    /\ \A i \in 1..Len(trace) :
          trace[i].ev = "blit" => RectContains(request.srcrect, Unwrapped(trace[i]))

\* the destination is an integer multiple of the source in both directions
ExactScale(src, dst) ==
  /\ get_width(dst) > 0 /\ get_width(dst) % get_width(src) = 0
  /\ get_height(dst) > 0 /\ get_height(dst) % get_height(src) = 0

\* C1 (amended): for a non-empty srcrect anchored in the texture, every cell
\* of srcrect is covered exactly once by the unwrapped sources of the blits
\* and of the pieces dropped because their destination rectangle is empty,
\* no blit reaches outside srcrect, and nothing is dropped when the size of
\* dstrect is a positive integer multiple of the size of srcrect.
C1_WraparoundTiling ==
  (WrapDone /\ ~RectEmpty(request.srcrect)) =>
    /\ \A c \in Cells(request.srcrect) :
          Cardinality(Covering("blit", c)) + Cardinality(DropsCovering(c)) = 1
    /\ \A i \in 1..Len(trace) :
          trace[i].ev = "blit" => RectContains(request.srcrect, Unwrapped(trace[i]))
    /\ ExactScale(request.srcrect, request.dstrect) =>
          \A i \in 1..Len(trace) : ~IsDrop(trace[i])

\* a source spanning three columns and two rows of tiles, copied unscaled
\* into six blits
C1_Witness ==
  /\ WrapDone
  /\ get_width(request.imgrect) = 2 /\ get_height(request.imgrect) = 2
  /\ request.srcrect = Rect(1, 1, 5, 4)
  /\ get_width(request.dstrect) = 4 /\ get_height(request.dstrect) = 3
  /\ Len(calls) = 6

\* C2: no assertion of render_texture or relative_map fails in a call whose
\* source anchor lies in the texture: the anchor of every recursive call is
\* in imgrect, srcrect contains every rectangle given to relative_map and
\* dstrect contains every rectangle relative_map computes.
C2_AssertionsHold ==
  WrapDone => \A i \in 1..Len(trace) : trace[i].ok /\ trace[i].ok2

\* relative_map was given an inverted top remainder and an inverted left
\* remainder, two levels below the top-level call
C2_Witness ==
  /\ WrapDone
  /\ \E i \in 1..Len(trace) :
        trace[i].ev = "map" /\ get_height(trace[i].src) < 0 /\ trace[i].depth >= 2
  /\ \E i \in 1..Len(trace) :
        trace[i].ev = "map" /\ get_width(trace[i].src) < 0 /\ trace[i].depth >= 2

\* number of texture widths (heights) an anchored rectangle of the given
\* far edge spans: the least n with far <= n * size
Spans(far, size) == (far + size - 1) \div size

\* C3: render_texture terminates; the nesting depth of its recursive calls
\* is at most the number of texture widths plus texture heights srcrect
\* spans, and every rectangle it recurses on is strictly narrower or
\* strictly lower than the srcrect of the call that made it.
C3_Termination ==
  WrapDone =>
    /\ \A i \in 1..Len(trace) :
          /\ trace[i].ev # "cap"
          /\ trace[i].depth - 1 <= Spans(request.srcrect.right, get_width(request.imgrect))
                                  + Spans(request.srcrect.bottom, get_height(request.imgrect))
          /\ trace[i].ev = "map" =>
                \/ get_width(trace[i].src) < get_width(trace[i].parent)
                \/ get_height(trace[i].src) < get_height(trace[i].parent)

\* a recursion four calls deep below the top-level call
C3_Witness ==
  /\ WrapDone
  /\ \E i \in 1..Len(trace) : trace[i].depth = 5 /\ trace[i].ev = "blit"

\* C11: when imgrect contains a non-empty srcrect and dstrect is not empty,
\* render_texture issues exactly one SDL_RenderCopy, from srcrect to dstrect,
\* and neither decomposes srcrect nor calls itself.
C11_DirectBlit ==
  (WrapDone /\ ~RectEmpty(request.srcrect) /\ ~RectEmpty(request.dstrect)
     /\ RectContains(request.imgrect, request.srcrect)) =>
    /\ Len(calls) = 1
    /\ calls[1].op = "SDL_RenderCopy"
    /\ calls[1].rects = <<to_sdl(request.srcrect), to_sdl(request.dstrect)>>
    /\ \A i \in 1..Len(trace) : trace[i].depth = 1 /\ trace[i].ev \in {"call", "blit"}
    /\ Cardinality({ i \in 1..Len(trace) : trace[i].ev = "call" }) = 1

\* a source that ends on the right and bottom edge of the texture, copied
\* to a destination of another size
C11_Witness ==
  /\ WrapDone
  /\ request.imgrect = Rect(0, 0, 2, 2)
  /\ request.srcrect = Rect(1, 1, 2, 2)
  /\ get_width(request.dstrect) = 3 /\ get_height(request.dstrect) = 2
  /\ Len(calls) = 1

\* a call of render_texture whose srcrect or dstrect is empty
IsEmptyCall(e) == e.ev = "call" /\ (RectEmpty(e.src) \/ RectEmpty(e.dst))

\* C12: a call of render_texture with an empty srcrect or dstrect, at the
\* top level or anywhere in the recursion (inverted top and left
\* remainders, destinations collapsed by the integer scaling), returns at
\* once: its anchor assertion holds, it is followed by no blit, no mapping
\* and no call of its own, and every rectangle handed to SDL_RenderCopy has
\* positive width and height.
C12_EmptyIsNoOp ==
  WrapDone =>
    /\ err = "none"
    /\ (RectEmpty(request.srcrect) \/ RectEmpty(request.dstrect)) =>
          calls = <<>> /\ Len(trace) = 1
    /\ \A i \in 1..Len(trace) :
          IsEmptyCall(trace[i]) =>
            /\ trace[i].ok
            /\ i < Len(trace) => trace[i + 1].depth < trace[i].depth
    /\ \A i \in 1..Len(calls) : \A j \in 1..2 :
          calls[i].rects[j].w > 0 /\ calls[i].rects[j].h > 0

\* a recursion that meets an inverted top remainder, an inverted left
\* remainder and a piece whose destination collapsed to nothing
C12_Witness ==
  /\ WrapDone
  /\ ~RectEmpty(request.srcrect) /\ ~RectEmpty(request.dstrect)
  /\ \E i \in 1..Len(trace) : IsEmptyCall(trace[i]) /\ get_height(trace[i].src) < 0
  /\ \E i \in 1..Len(trace) : IsEmptyCall(trace[i]) /\ get_width(trace[i].src) < 0
  /\ \E i \in 1..Len(trace) : IsDrop(trace[i]) /\ trace[i].depth >= 2
  /\ Len(calls) >= 2

\* the blits whose destination rectangle has pixel c
BlitsOnto(c) ==
  { i \in 1..Len(trace) : /\ trace[i].ev = "blit"
                          /\ RectContainsPoint(trace[i].dst, c[1], c[2]) }

\* C26: for a non-empty srcrect anchored in the texture and a non-empty
\* dstrect the destination rectangles of the blits lie inside dstrect, do
\* not overlap and together cover dstrect: every pixel of dstrect is in the
\* destination of exactly one blit.
C26_DestinationTiling ==
  (WrapDone /\ ~RectEmpty(request.srcrect) /\ ~RectEmpty(request.dstrect)) =>
    /\ \A i \in 1..Len(trace) :
          trace[i].ev = "blit" => /\ ~RectEmpty(trace[i].dst)
                                  /\ RectContains(request.dstrect, trace[i].dst)
    /\ \A c \in Cells(request.dstrect) : Cardinality(BlitsOnto(c)) = 1
    /\ Len(calls) = Cardinality({ i \in 1..Len(trace) : trace[i].ev = "blit" })
    /\ \A i \in 1..Len(calls) :
          \E j \in 1..Len(trace) : /\ trace[j].ev = "blit"
                                   /\ calls[i].rects[2] = to_sdl(trace[j].dst)

\* a source of 3 x 3 pixels over a texture of 2 x 2, enlarged to 4 x 4: the
\* pieces of 2 x 2, 1 x 2, 2 x 1 and 1 x 1 source pixels each fill a quarter
\* of the destination
C26_Witness ==
  /\ WrapDone
  /\ request.imgrect = RectSized(0, 0, 2, 2)
  /\ request.srcrect = RectSized(0, 0, 3, 3)
  /\ get_width(request.dstrect) = 4 /\ get_height(request.dstrect) = 4
  /\ Len(calls) = 4
  /\ \A i \in 1..4 : calls[i].rects[2].w = 2 /\ calls[i].rects[2].h = 2
  /\ \E i \in 1..4 : calls[i].rects[1].w = 1 /\ calls[i].rects[1].h = 1

-----------------------------------------------------------------------------
(* Properties of the blend resolver (checked under SpecBlend).             *)

\* C4: blend2sdl is total and returns NONE exactly for (ONE, ZERO), ADD
\* exactly for (SRC_ALPHA, ONE), MOD exactly for (DST_COLOR, ZERO) and BLEND
\* for (SRC_ALPHA, ONE_MINUS_SRC_ALPHA) and every other pair.
C4_BlendResolution ==
  (pc = "done" /\ request.kind = "gradient") =>
    /\ err = "none"
    /\ Len(calls) = 1
    /\ calls[1].blend = draw_blend
    /\ draw_blend \in {"NONE", "BLEND", "ADD", "MOD"}
    /\ (draw_blend = "NONE") <=> (request.blend = Blend("GL_ONE", "GL_ZERO"))
    /\ (draw_blend = "ADD") <=> (request.blend = Blend("GL_SRC_ALPHA", "GL_ONE"))
    /\ (draw_blend = "MOD") <=> (request.blend = Blend("GL_DST_COLOR", "GL_ZERO"))
    /\ (request.blend = Blend("GL_SRC_ALPHA", "GL_ONE_MINUS_SRC_ALPHA")) => draw_blend = "BLEND"

\* a pair that shares its source factor with a recognized pair falls back
\* to BLEND
C4_Witness ==
  /\ pc = "done"
  /\ request.kind = "gradient"
  /\ request.blend = Blend("GL_ONE", "GL_ONE")
  /\ draw_blend = "BLEND"

\* the four pairs of factors blend2sdl knows
RecognizedBlends ==
  { Blend("GL_ONE", "GL_ZERO"), Blend("GL_SRC_ALPHA", "GL_ONE_MINUS_SRC_ALPHA"),
    Blend("GL_SRC_ALPHA", "GL_ONE"), Blend("GL_DST_COLOR", "GL_ZERO") }

\* C16: a call of blend2sdl with a pair of factors outside the four it
\* knows writes exactly one diagnostic, which names both factors, and
\* returns BLEND, with which the band is then drawn; a call with one of the
\* four pairs writes nothing.
C16_Diagnostic ==
  (pc = "done" /\ request.kind = "gradient") =>
    IF request.blend \in RecognizedBlends
    THEN log = <<>>
    ELSE /\ Len(log) = 1
         /\ log[1].msg = "unknown blend mode combinations"
         /\ log[1].sfactor = request.blend.sfactor
         /\ log[1].dfactor = request.blend.dfactor
         /\ err = "none"
         /\ Len(calls) = 1
         /\ calls[1].op = "SDL_RenderFillRect"
         /\ calls[1].blend = "BLEND"

\* the pair of NONE with its factors exchanged: one diagnostic, and the band
\* drawn with BLEND
C16_Witness ==
  /\ pc = "done"
  /\ request.kind = "gradient"
  /\ request.blend = Blend("GL_ZERO", "GL_ONE")
  /\ Len(log) = 1
  /\ log[1].sfactor = "GL_ZERO" /\ log[1].dfactor = "GL_ONE"
  /\ Len(calls) = 1

-----------------------------------------------------------------------------
(* Properties of draw_gradient (checked under SpecGradient).               *)

GradientDone == pc = "done" /\ request.kind = "gradient"

\* d is the largest absolute difference of a channel of top and bottom, as a
\* numerator over ColorDen
IsLargestDelta(d) ==
  /\ \E k \in 1..4 : d = Abs(request.top[k] - request.bottom[k])
  /\ \A k \in 1..4 : Abs(request.top[k] - request.bottom[k]) <= d

\* the bands drawn: one SDL_RenderFillRect each
Bands == Len(SelectSeq(calls, LAMBDA c : c.op = "SDL_RenderFillRect"))

\* C13 as stated: the number of bands is max(1, round(255 * d)), d the
\* largest absolute channel difference of top and bottom.
C13_Original ==
  GradientDone =>
    \A d \in 0..ColorDen :
      IsLargestDelta(d) =>
        \E n \in 0..255 :
          /\ 2 * n * ColorDen - ColorDen <= 2 * 255 * d
          /\ 2 * 255 * d < 2 * n * ColorDen + ColorDen
          /\ Bands = (IF n >= 1 THEN n ELSE 1)

\* C13 (amended): the number of bands is max(1, floor(255 * d)): the product
\* is cut to its integer part, not rounded.
C13_StepCount ==
  GradientDone =>
    /\ Len(calls) = Bands
    /\ \A d \in 0..ColorDen :
         IsLargestDelta(d) =>
           \E n \in 0..255 :
             /\ n * ColorDen <= 255 * d
             /\ 255 * d < (n + 1) * ColorDen
             /\ Bands = (IF n >= 1 THEN n ELSE 1)

\* a largest difference of 3 / ColorDen, in the green channel: 255 * d is
\* just below 6 and five bands are drawn
C13_Witness ==
  /\ GradientDone
  /\ request.top = <<1, 3, 0, ColorDen>>
  /\ request.bottom = <<0, 0, 0, ColorDen>>
  /\ Len(calls) = 5

\* C14: with top = bottom draw_gradient draws one band, and its colour is
\* the common colour converted to 8 bits, in all four directions.
C14_EqualColours ==
  (GradientDone /\ request.top = request.bottom) =>
    /\ Len(calls) = 1
    /\ calls[1].op = "SDL_RenderFillRect"
    /\ calls[1].color = Rgba8(request.top)

\* C25: the n bands are contiguous along the gradient axis (band i + 1
\* starts where band i ends) and their union is the region of the request:
\* they run from region.p1 to region.p2 along the axis and every band spans
\* from region.p1 to region.p2 across it.
C25_BandsSubdivide ==
  GradientDone =>
    LET region  == request.region
        n       == Len(calls)
        band(i) == calls[i].rects[1]
        \* a band's start and end along and across the gradient axis
        from(i)  == IF IsVertical(request.direction) THEN band(i).y ELSE band(i).x
        to(i)    == IF IsVertical(request.direction) THEN band(i).y + band(i).h
                                                     ELSE band(i).x + band(i).w
        left(i)  == IF IsVertical(request.direction) THEN band(i).x ELSE band(i).y
        right(i) == IF IsVertical(request.direction) THEN band(i).x + band(i).w
                                                     ELSE band(i).y + band(i).h
        along  == IF IsVertical(request.direction) THEN 2 ELSE 1
        across == IF IsVertical(request.direction) THEN 1 ELSE 2
    IN /\ n >= 1
       /\ \A i \in 1..n : calls[i].op = "SDL_RenderFillRect"
       /\ \A i \in 1..(n - 1) : to(i) = from(i + 1)
       /\ from(1) = ToInt(region.p1[along])
       /\ to(n) = ToInt(region.p2[along])
       /\ \A i \in 1..n : /\ left(i) = ToInt(region.p1[across])
                          /\ right(i) = ToInt(region.p2[across])

\* C27: for a sector direction and a region with p2.x > 0 and p1.x <= 0 the
\* corrected fraction p + begin_percentage of every band lies in [0, 1] and
\* every channel lies in [0, 255] before it is converted to 8 bits, so the
\* draw colour of the band is the integer part of each channel.
C27_SectorInRange ==
  (/\ GradientDone
   /\ IsSector(request.direction)
   /\ request.region.p2[1] > 0
   /\ request.region.p1[1] <= 0) =>
    LET n == Len(calls)
    IN \A i \in 0..(n - 1) :
          LET f == gradient_fraction(request, i, n)
          IN /\ 0 <= f.A /\ f.A <= f.B
             /\ \A k \in 1..4 :
                   LET c == gradient_channel(request, i, n, k)
                   IN /\ 0 <= c.num /\ c.num <= 255 * c.den
                      /\ calls[i + 1].color[k] = CDiv(c.num, c.den)

-----------------------------------------------------------------------------
(* Properties of draw_triangle (checked under SpecTriangle).               *)

TriangleDone == pc = "done" /\ request.kind = "triangle"

\* the rows of the three corners
CornerRows == {ToInt(request.pos1[2]), ToInt(request.pos2[2]), ToInt(request.pos3[2])}

\* the calls that draw a scanline on row y
ScanlinesOn(y) ==
  { i \in 1..Len(calls) : /\ calls[i].op = "SDL_RenderDrawLine"
                          /\ calls[i].args[2] = y /\ calls[i].args[4] = y }

\* C15: draw_triangle raises no error and draws one scanline on every row
\* from the topmost corner down to, but not including, the bottommost one,
\* and nothing else: an edge of zero vertical span adds no scanline, whether
\* it is a short edge (the other short edge then gives all the rows) or the
\* long edge (the three corners are on one row and nothing is drawn).
C15_DegenerateEdges ==
  TriangleDone =>
    LET lo == CHOOSE y \in CornerRows : \A z \in CornerRows : y <= z
        hi == CHOOSE y \in CornerRows : \A z \in CornerRows : z <= y
    IN /\ err = "none"
       /\ Len(calls) = hi - lo
       /\ \A y \in lo..(hi - 1) : Cardinality(ScanlinesOn(y)) = 1
       /\ Cardinality(CornerRows) = 1 => calls = <<>>

\* a triangle whose first edge is horizontal: the two scanlines of the other
\* short edge are all that is drawn
C15_Witness ==
  /\ TriangleDone
  /\ request.pos1 = <<0, 0>>
  /\ request.pos2 = <<2 * Den, 0>>
  /\ request.pos3 = <<Den, 2 * Den>>
  /\ Len(calls) = 2
  /\ ScanlinesOn(0) # {} /\ ScanlinesOn(1) # {}

\* corner k (0, 1, 2) of the triangle, in whole pixels
Corner(k) ==
  LET pos == <<request.pos1, request.pos2, request.pos3>>[(k % 3) + 1]
  IN <<ToInt(pos[1]), ToInt(pos[2])>>

\* edge k joins corner k and corner k + 1: its upper and its lower end, its
\* vertical span, its rows and its x on row y
UpperEnd(k) == IF Corner(k)[2] < Corner(k + 1)[2] THEN Corner(k) ELSE Corner(k + 1)

LowerEnd(k) == IF Corner(k)[2] < Corner(k + 1)[2] THEN Corner(k + 1) ELSE Corner(k)

VSpan(k) == LowerEnd(k)[2] - UpperEnd(k)[2]

RowsOf(k) == UpperEnd(k)[2] .. (LowerEnd(k)[2] - 1)

EdgeX(k, y) ==
  CDiv(UpperEnd(k)[1] * VSpan(k) + (LowerEnd(k)[1] - UpperEnd(k)[1]) * (y - UpperEnd(k)[2]),
       VSpan(k))

\* the first edge of maximal vertical span
FirstLongest ==
  CHOOSE k \in 0..2 : /\ \A j \in 0..2 : VSpan(j) <= VSpan(k)
                      /\ \A j \in 0..(k - 1) : VSpan(j) < VSpan(k)

-----------------------------------------------------------------------------
(* Properties of draw_filled_rect (checked under SpecFill).                *)

FillDone == pc = "done" /\ request.kind = "filled_rect"

AllDrawn(P(_)) ==
  \A i \in 1..Len(calls) : \A j \in 1..Len(calls[i].rects) : P(calls[i].rects[j])

\* C5: for non-negative width, height and radius every rectangle that
\* draw_filled_rect hands to the backend lies inside the requested
\* rectangle; its inset is between 0 and the radius and its width is the
\* requested width less twice the inset, which is not negative.
C5_FillContained ==
  (FillDone /\ request.size[1] >= 0 /\ request.size[2] >= 0 /\ request.radius >= 0) =>
    LET rect == fill_rect(request)
        Inside(r) ==
          /\ rect.x <= r.x /\ r.x + r.w <= rect.x + rect.w
          /\ rect.y <= r.y /\ r.y + r.h <= rect.y + rect.h
          /\ r.w >= 0 /\ r.h >= 0
          /\ r.x - rect.x <= ToInt(request.radius)
          /\ r.w = rect.w - 2 * (r.x - rect.x)
    IN err = "none" /\ AllDrawn(Inside)

\* a rectangle with corners of radius 3: six strips, two of them inset by
\* 2, and the centre band
C5_Witness ==
  /\ FillDone
  /\ fill_radius(request) = 3
  /\ Len(calls) = 1
  /\ Len(calls[1].rects) = 7
  /\ \E j \in 1..7 : calls[1].rects[j].x = fill_rect(request).x + 2

\* C6 as stated (read for sizes that are not negative): a request of radius
\* 0 gives exactly one backend fill, of the full requested rectangle.
C6_Original ==
  (FillDone /\ request.radius = 0 /\ request.size[1] >= 0 /\ request.size[2] >= 0) =>
    /\ Len(calls) = 1
    /\ calls[1].op = "SDL_RenderFillRect"
    /\ calls[1].rects = <<fill_rect(request)>>

\* C6 (amended): a request of radius 0 with positive width and height gives
\* exactly one backend fill, of the full requested rectangle; with width or
\* height 0 (and neither negative) it gives no backend call at all.
C6_RadiusZero ==
  (FillDone /\ request.radius = 0) =>
    LET rect == fill_rect(request)
    IN /\ (rect.w > 0 /\ rect.h > 0) =>
            /\ err = "none"
            /\ Len(calls) = 1
            /\ calls[1].op = "SDL_RenderFillRect"
            /\ calls[1].rects = <<rect>>
       /\ (rect.w >= 0 /\ rect.h >= 0 /\ (rect.w = 0 \/ rect.h = 0)) =>
            err = "none" /\ calls = <<>>

\* radius 0 and an empty rectangle: nothing is drawn
C6_Witness ==
  /\ FillDone
  /\ request.radius = 0
  /\ fill_rect(request).w = 0
  /\ fill_rect(request).h = 3
  /\ calls = <<>>

\* a rounded rectangle: the effective radius is at least 1
Rounded == FillDone /\ fill_radius(request) >= 1

\* the rectangles of the batch that span the full width of the request
FullWidth ==
  { j \in 1..Len(calls[1].rects) :
      /\ calls[1].rects[j].x = fill_rect(request).x
      /\ calls[1].rects[j].w = fill_rect(request).w }

\* C19 as stated: with effective radius r >= 1 the full-width centre band
\* is emitted if and only if the height exceeds 2 r + 1; when emitted it
\* starts at row y + r + 1 and has height h - 2 r - 1.
C19_Original ==
  Rounded =>
    LET rect == fill_rect(request)
        r    == fill_radius(request)
    IN /\ Len(calls) = 1
       /\ (FullWidth # {}) <=> (rect.h > 2 * r + 1)
       /\ \A j \in FullWidth :
             /\ calls[1].rects[j].y = rect.y + r + 1
             /\ calls[1].rects[j].h = rect.h - 2 * r - 1

\* C19 (amended): with effective radius r >= 1 the full-width centre band
\* is emitted, as the last rectangle of the batch, if and only if the
\* height exceeds 2 r; it starts at row y + r + 1 and has height
\* h - 2 r - 1, which is 0 (a band without rows) when the height is 2 r + 1.
C19_CentreBand ==
  Rounded =>
    LET rect == fill_rect(request)
        r    == fill_radius(request)
    IN /\ err = "none"
       /\ Len(calls) = 1
       /\ calls[1].op = "SDL_RenderFillRects"
       /\ (FullWidth # {}) <=> (rect.h > 2 * r)
       /\ \A j \in FullWidth :
             /\ j = Len(calls[1].rects)
             /\ calls[1].rects[j].y = rect.y + r + 1
             /\ calls[1].rects[j].h = rect.h - 2 * r - 1
             /\ (calls[1].rects[j].h = 0) <=> (rect.h = 2 * r + 1)

\* radius 2 and height 5: two top strips, two bottom strips and a centre
\* band of height 0
C19_Witness ==
  /\ Rounded
  /\ fill_radius(request) = 2
  /\ fill_rect(request).h = 5
  /\ Len(calls[1].rects) = 5
  /\ calls[1].rects[5].h = 0
  /\ calls[1].rects[5].w = fill_rect(request).w

\* the rectangles of the batch that start on row y and are one row high
StripsOn(y) ==
  { j \in 1..Len(calls[1].rects) : calls[1].rects[j].y = y /\ calls[1].rects[j].h = 1 }

\* C20: with effective radius r >= 1 no row is covered by two rectangles of
\* the batch; every iteration i gives one top strip on row y + r - i, and
\* one bottom strip on row y + h - r + i unless that is the row of its top
\* strip, which happens only for a height of at most 2 r: the rectangles
\* are the r top strips, the bottom strips not left out and at most one
\* centre band.
C20_RowDisjoint ==
  Rounded =>
    LET rect  == fill_rect(request)
        r     == fill_radius(request)
        rects == calls[1].rects
        same  == { i \in 0..(r - 1) : rect.y + rect.h - r + i = rect.y + r - i }
    IN /\ Len(calls) = 1
       /\ \A j \in 1..Len(rects) : \A k \in 1..Len(rects) :
             j < k => \/ rects[j].y + rects[j].h <= rects[k].y
                      \/ rects[k].y + rects[k].h <= rects[j].y
       /\ \A i \in 0..(r - 1) :
             /\ Cardinality(StripsOn(rect.y + r - i) \ FullWidth) = 1
             /\ Cardinality(StripsOn(rect.y + rect.h - r + i) \ FullWidth) = 1
       /\ same # {} => rect.h <= 2 * r
       /\ Len(rects) = 2 * r - Cardinality(same) + Cardinality(FullWidth)
       /\ Cardinality(FullWidth) <= 1

\* radius 2 and height 4: the bottom strip of the first iteration would lie
\* on the row of its top strip and is left out
C20_Witness ==
  /\ Rounded
  /\ fill_radius(request) = 2
  /\ fill_rect(request).h = 4
  /\ Len(calls[1].rects) = 3
  /\ Cardinality(StripsOn(fill_rect(request).y + 2)) = 1

\* the rows of the requested rectangle that some rectangle of the batch
\* spans
RowsCovered ==
  { y \in fill_rect(request).y .. (fill_rect(request).y + fill_rect(request).h - 1) :
      \E j \in 1..Len(calls[1].rects) :
         /\ calls[1].rects[j].y <= y
         /\ y < calls[1].rects[j].y + calls[1].rects[j].h }

\* C21: for a height of at least 2 and effective radius r >= 1 the
\* rectangles of the batch together cover every row y, ..., y + h - 1 of
\* the requested rectangle, and row k is covered exactly when row
\* h - 1 - k is.
C21_RowCoverage ==
  (Rounded /\ fill_rect(request).h >= 2) =>
    LET rect == fill_rect(request)
    IN /\ Len(calls) = 1
       /\ RowsCovered = rect.y .. (rect.y + rect.h - 1)
       /\ \A k \in 0..(rect.h - 1) :
             (rect.y + k \in RowsCovered) <=> (rect.y + rect.h - 1 - k \in RowsCovered)

-----------------------------------------------------------------------------
(* Properties of draw_inverse_ellipse (checked under SpecEllipse).         *)

EllipseDone == pc = "done" /\ request.kind = "inverse_ellipse"

\* two pixel intervals [a1, b1) and [a2, b2) have no pixel in common
NoCommonPixel(a1, b1, a2, b2) == b1 <= a1 \/ b2 <= a2 \/ b1 <= a2 \/ b2 <= a1

\* C22: with slices = min(int(size.y), 256) the batch holds a left and a
\* right band for every slice i, on rows top + i * int(h) / slices up to
\* top + (i + 1) * int(h) / slices; consecutive slices are contiguous and
\* together span the rows top up to top + int(h); the left band [0, x - xoff)
\* and the right band [x + xoff, screen width) of a slice have no pixel in
\* common; the top band covers rows 0 up to top and the bottom band rows
\* top + int(h) up to the screen height, both at full screen width.
C22_BandsPartition ==
  EllipseDone =>
    LET h      == ToInt(request.size[2])
        slices == Min(h, 256)
        top    == CDiv(2 * request.pos[2] - request.size[2], 2 * Den)
        width  == request.viewport[1]
        height == request.viewport[2]
    IN /\ Len(calls) = 1
       /\ Len(calls[1].rects) = 2 * slices + 2
       /\ LET rects     == calls[1].rects
              left(i)   == rects[2 * i + 1]
              right(i)  == rects[2 * i + 2]
              top_rect  == rects[2 * slices + 1]
              bottom_rect == rects[2 * slices + 2]
          IN /\ \A i \in 0..(slices - 1) :
                   /\ left(i).y = top + CDiv(i * h, slices)
                   /\ left(i).y + left(i).h = top + CDiv((i + 1) * h, slices)
                   /\ left(i).h >= 1
                   /\ right(i).y = left(i).y /\ right(i).h = left(i).h
                   /\ left(i).x = 0
                   /\ right(i).x + right(i).w = width
                   /\ left(i).w + right(i).x = 2 * ToInt(request.pos[1])
                   /\ NoCommonPixel(left(i).x, left(i).x + left(i).w,
                                    right(i).x, right(i).x + right(i).w)
             /\ \A i \in 0..(slices - 2) : left(i).y + left(i).h = left(i + 1).y
             /\ slices >= 1 => /\ left(0).y = top
                               /\ left(slices - 1).y + left(slices - 1).h = top + h
             /\ top_rect = [x |-> 0, y |-> 0, w |-> width, h |-> top]
             /\ bottom_rect = [x |-> 0, y |-> top + h, w |-> width,
                               h |-> height - (top + h)]

\* C23: for every size.y draw_inverse_ellipse uses at most 256 slices, every
\* index it writes in the band buffer lies in 0..513, and the single batched
\* fill submits exactly 2 * slices + 2 rectangles with 0 <= slices <= 256.
C23_BufferBound ==
  EllipseDone =>
    LET slices == ellipse_slice_count(request)
    IN /\ slices \in 0..256
       /\ ellipse_writes(slices) \subseteq 0..513
       /\ err = "none"
       /\ Len(calls) = 1
       /\ calls[1].op = "SDL_RenderFillRects"
       /\ Len(calls[1].rects) = 2 * slices + 2

-----------------------------------------------------------------------------
(* Properties of the animated copy (checked under SpecCopy).               *)

\* C10: with a nonzero angle or a flip flag RenderCopyEx issues exactly one
\* backend copy, with the caller's rectangles, angle and flip, and never
\* enters render_texture, whatever the animation vector and the game time.
C10_NoWrapUnderTransform ==
  (pc = "done" /\ request.kind = "RenderCopyEx" /\ (request.angle # 0 \/ request.flip # {})) =>
    /\ trace = <<>>
    /\ Len(calls) = 1
    /\ calls[1].op = "SDL_RenderCopyEx"
    /\ calls[1].rects = <<request.srcrect, request.dstrect>>
    /\ calls[1].args = <<request.angle, request.flip>>

\* a rotated copy of a source that leaves the texture, with a texture
\* offset of one pixel
C10_Witness ==
  /\ pc = "done"
  /\ request.kind = "RenderCopyEx"
  /\ request.angle # 0
  /\ request.flip = {}
  /\ request.texture.animate = <<-3, 1>>
  /\ request.g_game_time = 3 * Den
  /\ request.texture.width = 2
  /\ request.srcrect.w = 3
  /\ Len(calls) = 1

\* C17: whenever RenderCopyEx enters render_texture, whatever the sign of
\* the animation offset and of the source position, the source rectangle
\* it hands over has its top-left corner in [0, W) x [0, H), so that the
\* anchor assertion holds on entry; the corner is the source position
\* shifted by the (truncated) animation offset, up to multiples of W and H,
\* and the size is the size of the request's source rectangle.  It enters
\* exactly when the copy is neither rotated nor flipped and the offset is
\* not a multiple of W horizontally or not a multiple of H vertically.
C17_AnchorWrapped ==
  (pc = "done" /\ request.kind = "RenderCopyEx") =>
    LET W == request.texture.width
        H == request.texture.height
        off_x == CDiv(request.texture.animate[1] * request.g_game_time, Den * Den)
        off_y == CDiv(request.texture.animate[2] * request.g_game_time, Den * Den)
    IN /\ (trace # <<>>) <=> /\ request.angle = 0 /\ request.flip = {}
                             /\ (off_x % W # 0 \/ off_y % H # 0)
       /\ (trace # <<>>) =>
            /\ trace[1].ev = "call" /\ trace[1].depth = 1
            /\ trace[1].ok
            /\ trace[1].src.left \in 0..(W - 1)
            /\ trace[1].src.top \in 0..(H - 1)
            /\ (trace[1].src.left - request.srcrect.x - off_x) % W = 0
            /\ (trace[1].src.top - request.srcrect.y - off_y) % H = 0
            /\ get_width(trace[1].src) = request.srcrect.w
            /\ get_height(trace[1].src) = request.srcrect.h
            /\ to_sdl(trace[1].dst) = request.dstrect

\* a negative animation offset and a negative source position, wrapped to
\* the left edge of the texture
C17_Witness ==
  /\ pc = "done"
  /\ request.kind = "RenderCopyEx"
  /\ request.texture.width = 2
  /\ request.texture.animate = <<-3, 1>>
  /\ request.g_game_time = Den
  /\ request.srcrect.x = -1
  /\ request.srcrect.w = 3
  /\ trace # <<>>
  /\ trace[1].src = Rect(0, 0, 3, 2)
  /\ Len(calls) = 2

-----------------------------------------------------------------------------
(* Properties of the painter (checked under Spec).                         *)

\* C7: clear leaves the recorded clip rectangle unchanged; with a clip
\* rectangle recorded it fills exactly that rectangle with the colour and
\* blend mode NONE, with none recorded it issues one full-target clear with
\* the colour and does not touch the draw blend mode it finds.
C7_Clear ==
  [][request'.kind = "clear" =>
       /\ m_cliprect' = m_cliprect
       /\ err' = "none"
       /\ Len(calls') = 1
       /\ calls'[1].color = Rgba8(request'.color)
       /\ IF m_cliprect # None
          THEN /\ calls'[1].op = "SDL_RenderFillRect"
               /\ calls'[1].rects = <<m_cliprect[1]>>
               /\ calls'[1].blend = "NONE"
          ELSE /\ calls'[1].op = "SDL_RenderClear"
               /\ draw_blend' = draw_blend]_vars

\* a clear of the recorded clip rectangle while the renderer clips to
\* something else
C7_Witness ==
  /\ request.kind = "clear"
  /\ m_cliprect = Some(to_sdl(Rect(1, 1, 3, 2)))
  /\ Len(calls) = 1
  /\ calls[1].rects = <<to_sdl(Rect(1, 1, 3, 2))>>
  /\ calls[1].blend = "NONE"

FailedBackendCall(req) ==
  req.kind \in {"set_clip_rect", "clear_clip_rect", "get_pixel"} /\ ~req.sdl_ok

\* C8: when the backend call of set_clip_rect, clear_clip_rect or get_pixel
\* fails, the operation logs a diagnostic and changes neither the recorded
\* clip rectangle nor the output colour slot.
C8_FailedCallIsNoOp ==
  [][FailedBackendCall(request') =>
       /\ Len(log') = 1
       /\ m_cliprect' = m_cliprect
       /\ color_slot' = color_slot]_vars

DrawKinds ==
  {"texture", "gradient", "filled_rect", "inverse_ellipse", "line", "triangle", "clear"}

\* the backend state of a freshly constructed renderer and texture
Fresh ==
  Backend(<<0, 0, 0, 255>>, "NONE",
          [color |-> <<255, 255, 255>>, alpha |-> 255, blend |-> "NONE"])

\* the calls a draw request issues when it starts in backend state st
CallsOf(req, cliprect, st) ==
  CASE req.kind = "texture" -> draw_texture(st, req).calls
    [] req.kind = "gradient" -> draw_gradient(st, req).calls
    [] req.kind = "filled_rect" -> draw_filled_rect(st, req).calls
    [] req.kind = "inverse_ellipse" -> draw_inverse_ellipse(st, req).calls
    [] req.kind = "line" -> draw_line(st, req).calls
    [] req.kind = "triangle" -> draw_triangle(st, req).calls
    [] req.kind = "clear" -> clear(st, req.color, cliprect).calls

\* C9 as stated: the calls of a draw request, with the draw colour and draw
\* blend mode in effect at each call, do not depend on what was processed
\* before it: they are the calls the request gives on a fresh renderer with
\* the same recorded clip rectangle.
C9_Original ==
  request.kind \in DrawKinds =>
    LET fresh == CallsOf(request, m_cliprect, Fresh)
    IN /\ Len(calls) = Len(fresh)
       /\ \A i \in 1..Len(calls) :
            /\ calls[i].op = fresh[i].op
            /\ calls[i].rects = fresh[i].rects
            /\ calls[i].args = fresh[i].args
            /\ calls[i].color = fresh[i].color
            /\ calls[i].blend = fresh[i].blend

\* what a backend call is drawn with: fills and lines use the draw colour
\* and the draw blend mode, the full-target clear the draw colour alone,
\* texture copies the modulation stored on the texture
UsedBy(call) ==
  IF call.op \in {"SDL_RenderCopy", "SDL_RenderCopyEx"} THEN <<call.mod>>
  ELSE IF call.op = "SDL_RenderClear" THEN <<call.color>>
  ELSE <<call.color, call.blend>>

\* C9 (amended): the calls of a draw request, with the state each call is
\* drawn with (draw colour and draw blend mode for fills and lines, the draw
\* colour alone for the full-target clear, the texture modulation for
\* copies), do not depend on what was processed before it.
C9_RequestIndependence ==
  request.kind \in DrawKinds =>
    LET fresh == CallsOf(request, m_cliprect, Fresh)
    IN /\ Len(calls) = Len(fresh)
       /\ \A i \in 1..Len(calls) :
            /\ calls[i].op = fresh[i].op
            /\ calls[i].rects = fresh[i].rects
            /\ calls[i].args = fresh[i].args
            /\ UsedBy(calls[i]) = UsedBy(fresh[i])

\* a line drawn after a request that left another draw colour and the
\* additive blend mode behind: the renderer holds the line's colour and
\* BLEND, the texture still the modulation of an earlier copy
C9_Witness ==
  /\ request.kind = "line"
  /\ request.color = Blue
  /\ Len(calls) = 1
  /\ calls[1].color = Rgba8(Blue)
  /\ calls[1].mod.color = <<255, 0, 0>>
  /\ m_cliprect # None

\* C18: when the request before a get_pixel was a draw_filled_rect with
\* opaque solid blue that filled the pixel get_pixel reads, inside the clip
\* rectangle of the renderer if there is one, get_pixel writes blue into the
\* output colour slot.
C18_ReadBack ==
  [][(/\ request.kind = "filled_rect"
      /\ request.color = Blue
      /\ request'.kind = "get_pixel"
      /\ target_pixel(calls, sdl_clip, request') = Some(<<0, 0, 255>>))
       => color_slot' = <<0, 0, 255>>]_vars


\* C28: after any sequence of operations, whose backend clip calls may
\* succeed or fail, the clip rectangle the painter records equals the clip
\* rectangle in effect in the backend, and only set_clip_rect and
\* clear_clip_rect change either of them.
C28_ClipAgreement ==
  /\ [](m_cliprect = sdl_clip)
  /\ [][request'.kind \notin {"set_clip_rect", "clear_clip_rect"} =>
          UNCHANGED <<m_cliprect, sdl_clip>>]_vars


-----------------------------------------------------------------------------
(* Properties of the fade of TextObject (checked under SpecTextFair).      *)

\* the fade of the request is over: fade_in has shown the text, fade_out
\* has hidden it
FadeOver == m_fading = 0 /\ m_visible = (request.kind = "fade_in")

\* what C29 says of steps: once a fade is over updates change neither
\* m_fading nor m_visible; set_visible during a fade ends it, and no later
\* update changes m_visible.
FadeSteps ==
  /\ [][(pc = "fading" /\ pc' = "fading" /\ m_fading = 0) =>
          (m_fading' = 0 /\ m_visible' = m_visible)]_vars
  /\ [][(pc = "fading" /\ pc' = "cancelled") => m_fading' = 0]_vars
  /\ [][pc = "cancelled" => (m_fading' = 0 /\ m_visible' = m_visible)]_vars

\* C29 as stated: after fade_in(t) or fade_out(t) with t > 0, repeated
\* updates with dt > 0 and no other call in between end the fade, with the
\* text shown or hidden; further updates change nothing; set_visible cancels
\* a fade.
C29_Original ==
  /\ (pc = "fading") ~> (pc = "cancelled" \/ FadeOver)
  /\ FadeSteps

\* C29 (amended): the same for fades whose time is less than 2^24 times the
\* shortest frame time (one tick), so that every update changes m_fading
\* while the fade lasts.
C29_FadeCompletes ==
  /\ (pc = "fading" /\ request.fadetime < 2^24 * 1) ~> (pc = "cancelled" \/ FadeOver)
  /\ FadeSteps

\* a fade_in of 3 ticks has shown the text that was hidden when it began
C29_Witness ==
  /\ pc = "fading"
  /\ request.kind = "fade_in"
  /\ request.fadetime = 3
  /\ m_fadetime = 3
  /\ m_fading = 0
  /\ m_visible


-----------------------------------------------------------------------------
(* Properties of ObjectSettings::reorder (checked under SpecReorder).      *)

\* the place of the first name of order that equals key
FirstNamed(order, key) ==
  CHOOSE k \in 1..Len(order) : order[k] = key /\ \A j \in 1..(k - 1) : order[j] # key

\* C30: reorder leaves exactly the options the list held, each once, so its
\* size assertion holds; the options whose key is not in order come first,
\* in the order they had, and the options order names follow, in the
\* sequence order gives.
C30_Permutation ==
  [][(pc = "pending" /\ pc' = "done") =>
       LET order   == request.order
           unnamed == SelectSeq(m_options, LAMBDA o : ~InOrder(order, o[1].key))
       IN /\ err' = "none"
          /\ Len(m_options') = Len(m_options)
          /\ \A i \in 1..Len(m_options) :
                Cardinality({ j \in 1..Len(m_options') : m_options'[j] = m_options[i] }) = 1
          /\ SubSeq(m_options', 1, Len(unnamed)) = unnamed
          /\ \A i \in (Len(unnamed) + 1)..Len(m_options') :
                /\ m_options'[i] # None
                /\ InOrder(order, m_options'[i][1].key)
                /\ \A j \in (i + 1)..Len(m_options') :
                      FirstNamed(order, m_options'[i][1].key)
                        <= FirstNamed(order, m_options'[j][1].key)]_vars

=============================================================================
